---- MODULE Spec2Model ----
(***************************************************************************)
(* A model of the Lightning Hub backend:                                   *)
(*   - the Cashu proof ledger   (backend/services/cashu.js)                *)
(*   - the L402 gateway and the /v1/chat route it protects                 *)
(*                              (L402Gateway, services/ai-providers.js)    *)
(*   - the macaroon helper      (macaroon.js, as scripts/start.sh emits it)*)
(* Each component has its own next-state relation over a shared Init:      *)
(*   Spec      the proof ledger, one call at a time                        *)
(*   SpecMint  the proof ledger, one call at a time, the mint answering    *)
(*             with any number of signatures                               *)
(*   SpecRace  the proof ledger, calls overlapping at their awaits         *)
(*   SpecGW    the gateway middleware, the chat route and the sessions     *)
(*   SpecStore the gateway's methods called one by one on its session map  *)
(*   SpecMac   the macaroon functions applied to bounded inputs            *)
(*   SpecFn    splitAmount, the token codec and the mint queries, each     *)
(*             applied to bounded inputs                                   *)
(***************************************************************************)
EXTENDS Integers, Sequences, FiniteSets, TLC

VARIABLES
    \* ---- CashuService ----
    proofs,       \* this.proofs: sequence of [amount, secret]
    balance,      \* this.balance
    ops,          \* the asynchronous calls in flight, one record per slot
    tokens,       \* the token string last produced by send (it can be replayed)
    nextSecret,   \* crypto.randomBytes: the next fresh secret
    \* ---- L402Gateway and /v1/chat ----
    now,          \* Date.now()
    sessions,     \* this.sessions: key -> session record
    nextPreimage, \* lnd.createInvoice: the next fresh preimage
    revenue,      \* this.revenue
    reqs,         \* the HTTP requests, one record per slot
    \* ---- macaroon.js ----
    mac,          \* the macaroon as built by createMacaroon/addFirstPartyCaveat
    presented,    \* the macaroon handed to verifyMacaroon
    verdict,      \* the result of verifyMacaroon
    \* ---- pure functions of CashuService ----
    fnCall,       \* the function called and its arguments
    fnResult,     \* what it returned
    \* ---- L402Gateway methods called directly ----
    nextSessionId, \* crypto.randomBytes(16): the next fresh session id
    calls          \* what the method calls returned, one record per call

ledgerVars == <<proofs, balance, ops, tokens, nextSecret>>
gwVars     == <<now, sessions, nextPreimage, revenue, reqs>>
macVars    == <<mac, presented, verdict>>
fnVars     == <<fnCall, fnResult>>
storeVars  == <<nextSessionId, calls>>
vars       == <<ledgerVars, gwVars, macVars, fnVars, storeVars>>

(***************************************************************************)
(* Bounds of the model.                                                    *)
(***************************************************************************)
MaxOps     == 2   \* ledger calls that can be in flight at once
MaxAmount  == 2   \* amounts passed to mintTokens / meltTokens / send
MaxSecrets == 4   \* fresh secrets drawn over a run
RaceSecrets == 2  \* the same, when calls overlap

Ops     == 1..MaxOps
Amounts == 1..MaxAmount

(***************************************************************************)
(* Sequence helpers.                                                       *)
(***************************************************************************)

RECURSIVE SumAmounts(_)
\* proofs.reduce((sum, p) => sum + p.amount, 0)
SumAmounts(ps) ==
    IF Len(ps) = 0 THEN 0 ELSE ps[1].amount + SumAmounts(Tail(ps))

Secrets(ps) == {ps[i].secret : i \in 1..Len(ps)}

(***************************************************************************)
(* CashuService: pure helpers.                                             *)
(***************************************************************************)
MintUrl == "http://localhost:3338"

MaxDenomination == 8192

RECURSIVE SplitFrom(_, _)
SplitFrom(remaining, power) ==
    IF remaining > 0 /\ power >= 1
    THEN IF remaining >= power
         THEN <<power>> \o SplitFrom(remaining - power, power)
         ELSE SplitFrom(remaining, power \div 2)
    ELSE <<>>

\* splitAmount starting at half the largest denomination, "let power = 4096"
splitAmount_FromHalf(amount) == SplitFrom(amount, MaxDenomination \div 2)

\* splitAmount looping "while (remaining > 0 && power > 1)"
splitAmount_StopsAboveOne(amount) ==
    SelectSeq(SplitFrom(amount, MaxDenomination), LAMBDA d : d > 1)

splitAmount(amount) == SplitFrom(amount, MaxDenomination)

\* [...this.proofs].sort((a, b) => b.amount - a.amount): a stable sort
InsertDesc(sorted, p) ==
    LET k == Cardinality({i \in 1..Len(sorted) : sorted[i].amount >= p.amount})
    IN  SubSeq(sorted, 1, k) \o <<p>> \o SubSeq(sorted, k + 1, Len(sorted))

RECURSIVE SortDesc(_)
SortDesc(ps) ==
    IF Len(ps) = 0 THEN <<>>
    ELSE InsertDesc(SortDesc(SubSeq(ps, 1, Len(ps) - 1)), ps[Len(ps)])

RECURSIVE TakeUntil(_, _, _)
\* for (const proof of sorted) { if (total >= amount) break; selected.push(proof); ... }
TakeUntil(sorted, total, amount) ==
    IF Len(sorted) = 0 \/ total >= amount THEN <<>>
    ELSE <<sorted[1]>> \o TakeUntil(Tail(sorted), total + sorted[1].amount, amount)

\* selectProofs taking the proofs in ledger order, without the sort
selectProofs_LedgerOrder(ps, amount) ==
    LET selected == TakeUntil(ps, 0, amount)
        total    == SumAmounts(selected)
    IN  IF total < amount
        THEN [ok |-> FALSE, proofs |-> <<>>, change |-> 0]
        ELSE [ok |-> TRUE, proofs |-> selected, change |-> total - amount]

\* selectProofs without "if (total < amount) throw"
selectProofs_NoTotalCheck(ps, amount) ==
    LET selected == TakeUntil(SortDesc(ps), 0, amount)
        total    == SumAmounts(selected)
    IN  [ok |-> TRUE, proofs |-> selected, change |-> total - amount]

selectProofs(ps, amount) ==
    LET selected == TakeUntil(SortDesc(ps), 0, amount)
        total    == SumAmounts(selected)
    IN  IF total < amount
        THEN [ok |-> FALSE, proofs |-> <<>>, change |-> 0]
        ELSE [ok |-> TRUE, proofs |-> selected, change |-> total - amount]

\* removeProofs matching the proofs by amount instead of by secret
removeProofs_ByAmount(ps, proofsToRemove) ==
    LET amountsToRemove == {proofsToRemove[i].amount : i \in 1..Len(proofsToRemove)}
    IN  SelectSeq(ps, LAMBDA p : p.amount \notin amountsToRemove)

removeProofs(ps, proofsToRemove) ==
    LET secretsToRemove == Secrets(proofsToRemove)
    IN  SelectSeq(ps, LAMBDA p : p.secret \notin secretsToRemove)

\* createBlindedMessages: one fresh secret per denomination of splitAmount
createBlindedMessages(amount, first) ==
    LET denominations == splitAmount(amount)
    IN  [blindedMessages |-> denominations,
         secrets |-> [i \in 1..Len(denominations) |-> first + i - 1]]

\* secrets[i] for an index past the end of secrets: undefined (the secrets
\* the service generates are numbered from 1)
UndefinedSecret == 0

\* the mint signs each blinded message; unblindSignatures pairs signature i
\* with secret i
unblindSignatures(signatures, secrets) ==
    [i \in 1..Len(signatures) |->
        [amount |-> signatures[i],
         secret |-> IF i <= Len(secrets) THEN secrets[i] ELSE UndefinedSecret]]

createMockProofs(amount, first) ==
    LET denominations == splitAmount(amount)
    IN  [i \in 1..Len(denominations) |->
            [amount |-> denominations[i], secret |-> first + i - 1]]

\* serializeToken leaving the mint out of the token
serializeToken_NoMint(ps) ==
    [prefix |-> "cashuA", token |-> <<[mint |-> "", proofs |-> ps]>>]

serializeToken(ps) ==
    [prefix |-> "cashuA", token |-> <<[mint |-> MintUrl, proofs |-> ps]>>]

deserializeToken(tokenString) ==
    IF tokenString.prefix # "cashuA" THEN [ok |-> FALSE, mint |-> "", proofs |-> <<>>]
    ELSE IF Len(tokenString.token) = 0 THEN [ok |-> FALSE, mint |-> "", proofs |-> <<>>]
    ELSE [ok |-> TRUE, mint |-> tokenString.token[1].mint,
          proofs |-> tokenString.token[1].proofs]

(***************************************************************************)
(* The mint, as seen through fetch: it answers, refuses (HTTP error) or    *)
(* cannot be reached; which of the three is the mint's choice (a token     *)
(* received a second time is one of the refusals). An answer to a mint or  *)
(* swap request carries signatures: one per blinded message ("accept") or  *)
(* fewer ("short"). A mint that may also answer with more signatures than   *)
(* blinded messages ("long") is the mint of SpecMint.                      *)
(***************************************************************************)
Responses == {"accept", "short", "reject", "unreachable"}
MintResponses == Responses \cup {"long"}

\* const { signatures } = await response.json()
ResponseSignatures(resp, blindedMessages) ==
    IF resp = "short"
    THEN SubSeq(blindedMessages, 1, Len(blindedMessages) - 1)
    ELSE IF resp = "long"
    THEN Append(blindedMessages, blindedMessages[Len(blindedMessages)])
    ELSE blindedMessages

IdleOp == [pc |-> "idle", amount |-> 0, proofs |-> <<>>, secrets |-> <<>>, resp |-> "none"]

\* calls take the lowest free slot (the slots are interchangeable)
Free(o) == ops[o].pc = "idle" /\ \A q \in Ops : q < o => ops[q].pc # "idle"

(***************************************************************************)
(* CashuService: operations. An asynchronous operation is split at its     *)
(* await on fetch: the part before it runs when the call is made, the part *)
(* after it when the mint's answer (or the failure) arrives.               *)
(***************************************************************************)
\* mintTokens up to the await on fetch
MintStart(o, amount) ==
    /\ Free(o)
    /\ LET n == Len(splitAmount(amount))
       IN  /\ nextSecret + n - 1 <= MaxSecrets
           /\ ops' = [ops EXCEPT ![o] =
                        [pc |-> "mintWait", amount |-> amount, proofs |-> <<>>,
                         secrets |-> createBlindedMessages(amount, nextSecret).secrets,
                         resp |-> "pending"]]
           /\ nextSecret' = nextSecret + n
    /\ UNCHANGED <<proofs, balance, tokens>>
    /\ UNCHANGED <<gwVars, macVars, fnVars, storeVars>>

\* fetch settles: the mint's answer, its refusal, or the network failure
FetchSettles(o, resp) ==
    /\ ops[o].pc # "idle"
    /\ ops[o].resp = "pending"
    /\ resp \in {"short", "long"} => ops[o].pc # "meltWait"
    /\ ops' = [ops EXCEPT ![o].resp = resp]
    /\ UNCHANGED <<proofs, balance, tokens, nextSecret>>
    /\ UNCHANGED <<gwVars, macVars, fnVars, storeVars>>

\* mintTokens after the await: the signatures are unblinded and stored, or
\* the catch block stores mock proofs
MintResolve(o) ==
    /\ ops[o].pc = "mintWait"
    /\ ops[o].resp \in MintResponses
    /\ LET amount == ops[o].amount
           resp   == ops[o].resp
           n      == Len(splitAmount(amount))
           ok     == resp \in {"accept", "short", "long"}
           made   == IF ok
                     THEN unblindSignatures(
                              ResponseSignatures(resp, splitAmount(amount)),
                              ops[o].secrets)
                     ELSE createMockProofs(amount, nextSecret)
       IN  /\ ~ok => nextSecret + n - 1 <= MaxSecrets
           /\ proofs' = proofs \o made
           /\ balance' = balance + amount
           /\ nextSecret' = IF ok THEN nextSecret ELSE nextSecret + n
    /\ ops' = [ops EXCEPT ![o] = IdleOp]
    /\ UNCHANGED tokens
    /\ UNCHANGED <<gwVars, macVars, fnVars, storeVars>>

\* the catch block of meltTokens: the balance it leaves and what it returns
meltTokensCatch(bal, amount) ==
    [balance |-> IF bal - amount > 0 THEN bal - amount ELSE 0,
     result |-> [state |-> "PAID", mock |-> TRUE]]

\* meltTokens up to the await on fetch; when selectProofs throws, the catch
\* block runs at once
MeltStart(o, amount) ==
    /\ Free(o)
    /\ LET sel == selectProofs(proofs, amount)
       IN  IF sel.ok
           THEN /\ ops' = [ops EXCEPT ![o] =
                             [pc |-> "meltWait", amount |-> amount,
                              proofs |-> sel.proofs, secrets |-> <<>>,
                              resp |-> "pending"]]
                /\ UNCHANGED balance
           ELSE /\ balance' = meltTokensCatch(balance, amount).balance
                /\ UNCHANGED ops
    /\ UNCHANGED <<proofs, tokens, nextSecret>>
    /\ UNCHANGED <<gwVars, macVars, fnVars, storeVars>>

\* meltTokens after the await
MeltResolve(o) ==
    /\ ops[o].pc = "meltWait"
    /\ ops[o].resp \in MintResponses
    /\ LET amount == ops[o].amount
           proofsToSpend == ops[o].proofs
       IN  /\ IF ops[o].resp = "accept"
              THEN /\ proofs' = removeProofs(proofs, proofsToSpend)
                   /\ balance' = balance - amount
              ELSE /\ balance' = meltTokensCatch(balance, amount).balance
                   /\ UNCHANGED proofs
    /\ ops' = [ops EXCEPT ![o] = IdleOp]
    /\ UNCHANGED <<tokens, nextSecret>>
    /\ UNCHANGED <<gwVars, macVars, fnVars, storeVars>>

\* swapTokens(proofs) up to the await on fetch
SwapBegin(o, inputs, pc) ==
    /\ Free(o)
    /\ LET amount == SumAmounts(inputs)
           n      == Len(splitAmount(amount))
       IN  /\ nextSecret + n - 1 <= MaxSecrets
           /\ ops' = [ops EXCEPT ![o] =
                        [pc |-> pc, amount |-> amount, proofs |-> inputs,
                         secrets |-> createBlindedMessages(amount, nextSecret).secrets,
                         resp |-> "pending"]]
           /\ nextSecret' = nextSecret + n

\* swapTokens removing the inputs before the mint's answer is known
SwapResult_RemovesBeforeAccept(o) ==
    IF ops[o].resp \in {"accept", "short", "long"}
    THEN LET newProofs == unblindSignatures(
                              ResponseSignatures(ops[o].resp, splitAmount(ops[o].amount)),
                              ops[o].secrets)
         IN  [proofs |-> newProofs, error |-> FALSE,
              ledger |-> removeProofs(proofs, ops[o].proofs) \o newProofs]
    ELSE [proofs |-> ops[o].proofs, error |-> TRUE,
          ledger |-> removeProofs(proofs, ops[o].proofs)]

\* swapTokens after the await: what it returns, and the ledger it leaves
SwapResult(o) ==
    IF ops[o].resp \in {"accept", "short", "long"}
    THEN LET newProofs == unblindSignatures(
                              ResponseSignatures(ops[o].resp, splitAmount(ops[o].amount)),
                              ops[o].secrets)
         IN  [proofs |-> newProofs, error |-> FALSE,
              ledger |-> removeProofs(proofs, ops[o].proofs) \o newProofs]
    ELSE [proofs |-> ops[o].proofs, error |-> TRUE, ledger |-> proofs]

\* a caller swaps proofs it holds in the ledger
SwapStart(o, idx) ==
    /\ idx # {}
    /\ SwapBegin(o, SelectSeq(proofs, LAMBDA p : p.secret \in idx), "swapWait")
    /\ UNCHANGED <<proofs, balance, tokens>>
    /\ UNCHANGED <<gwVars, macVars, fnVars, storeVars>>

SwapResolve(o) ==
    /\ ops[o].pc = "swapWait"
    /\ ops[o].resp \in MintResponses
    /\ LET res == SwapResult(o)
       IN  /\ proofs' = res.ledger
    /\ ops' = [ops EXCEPT ![o] = IdleOp]
    /\ UNCHANGED <<balance, tokens, nextSecret>>
    /\ UNCHANGED <<gwVars, macVars, fnVars, storeVars>>

\* send(amount): no await, so it runs in one step; when selectProofs throws
\* nothing is changed
Send(amount) ==
    LET sel == selectProofs(proofs, amount)
    IN  /\ IF sel.ok
           THEN /\ proofs' = removeProofs(proofs, sel.proofs)
                /\ balance' = balance - amount
                /\ tokens' = {serializeToken(sel.proofs)}
           ELSE UNCHANGED <<proofs, balance, tokens>>
        /\ UNCHANGED <<ops, nextSecret>>
        /\ UNCHANGED <<gwVars, macVars, fnVars, storeVars>>

\* router.post('/send'): the answer to a request for amount in the current
\* state (getBalance() returns this.balance; a throw of send is answered 500)
SendRoute(amount) ==
    IF amount <= 0
    THEN [status |-> 400, error |-> "Valid amount required"]
    ELSE IF amount > balance
    THEN [status |-> 400, error |-> "Insufficient balance"]
    ELSE IF ~selectProofs(proofs, amount).ok
    THEN [status |-> 500, error |-> "Insufficient balance"]
    ELSE [status |-> 200, error |-> ""]

\* a mint other than the ledger's
ForeignMintUrl == "https://mint.example.com"

\* the token strings a caller can pass to receive: the token send produced,
\* or a token of the same proofs naming another mint
ReceivableTokens ==
    tokens \cup {[t EXCEPT !.token[1].mint = ForeignMintUrl] : t \in tokens}

\* receive swapping whatever the token holds, whichever mint it names
ReceiveStart_NoMintCheck(o, tokenString) ==
    /\ LET tok == deserializeToken(tokenString)
       IN  IF ~tok.ok
           THEN UNCHANGED <<ops, nextSecret>>
           ELSE SwapBegin(o, tok.proofs, "receiveWait")
    /\ UNCHANGED <<proofs, balance, tokens>>
    /\ UNCHANGED <<gwVars, macVars, fnVars, storeVars>>

\* receive(tokenString) up to the await on swapTokens; a token that does not
\* parse or names another mint makes it throw before swapTokens is called
ReceiveStart(o, tokenString) ==
    /\ LET tok == deserializeToken(tokenString)
       IN  IF ~tok.ok \/ (tok.mint # "" /\ tok.mint # MintUrl)
           THEN UNCHANGED <<ops, nextSecret>>
           ELSE SwapBegin(o, tok.proofs, "receiveWait")
    /\ UNCHANGED <<proofs, balance, tokens>>
    /\ UNCHANGED <<gwVars, macVars, fnVars, storeVars>>

\* receive after the await: swapTokens has finished, the balance is credited
ReceiveResolve(o) ==
    /\ ops[o].pc = "receiveWait"
    /\ ops[o].resp \in MintResponses
    /\ LET res    == SwapResult(o)
           amount == SumAmounts(res.proofs)
       IN  /\ proofs' = res.ledger
           /\ balance' = balance + amount
    /\ ops' = [ops EXCEPT ![o] = IdleOp]
    /\ UNCHANGED <<tokens, nextSecret>>
    /\ UNCHANGED <<gwVars, macVars, fnVars, storeVars>>

InitLedger ==
    /\ proofs = <<>>
    /\ balance = 0
    /\ ops = [o \in Ops |-> IdleOp]
    /\ tokens = {}
    /\ nextSecret = 1

Idle == \A o \in Ops : ops[o].pc = "idle"

\* one call at a time: a call is made only when no other is in flight
Next ==
    \/ \E o \in Ops, a \in Amounts : Idle /\ MintStart(o, a)
    \/ \E o \in Ops, r \in Responses : FetchSettles(o, r)
    \/ \E o \in Ops : MintResolve(o)
    \/ \E o \in Ops, a \in Amounts : Idle /\ MeltStart(o, a)
    \/ \E o \in Ops : MeltResolve(o)
    \/ \E o \in Ops, idx \in SUBSET Secrets(proofs) : Idle /\ SwapStart(o, idx)
    \/ \E o \in Ops : SwapResolve(o)
    \/ \E a \in Amounts : Idle /\ Send(a)
    \/ \E o \in Ops, t \in ReceivableTokens : Idle /\ ReceiveStart(o, t)
    \/ \E o \in Ops : ReceiveResolve(o)

\* one call at a time, the mint answering a mint or swap request with any
\* number of signatures
NextMint ==
    \/ Next
    \/ \E o \in Ops : FetchSettles(o, "long")

\* calls made while others are in flight (the callers are HTTP handlers)
NextRace ==
    /\ \/ \E o \in Ops, a \in Amounts : MintStart(o, a)
       \/ \E o \in Ops, r \in Responses : FetchSettles(o, r)
       \/ \E o \in Ops : MintResolve(o)
       \/ \E o \in Ops, a \in Amounts : MeltStart(o, a)
       \/ \E o \in Ops : MeltResolve(o)
       \/ \E o \in Ops, idx \in SUBSET Secrets(proofs) : SwapStart(o, idx)
       \/ \E o \in Ops : SwapResolve(o)
       \/ \E a \in Amounts : Send(a)
       \/ \E o \in Ops, t \in ReceivableTokens : ReceiveStart(o, t)
       \/ \E o \in Ops : ReceiveResolve(o)
    /\ nextSecret' <= RaceSecrets + 1

(***************************************************************************)
(* L402Gateway. Hex strings are [bytes, upper]: the bytes they decode to   *)
(* and whether they are written in upper case; SHA-256 and HMAC-SHA256 are *)
(* free constructors (no collisions).                                      *)
(***************************************************************************)
MaxSessions   == 2   \* invoices lnd.createInvoice hands out over a run
MaxPrepaid    == 1   \* prepaid sessions created over a run
MaxRequests   == 2   \* HTTP requests being handled at once
MaxServed     == 2   \* provider calls that complete over a run
TicksPerTtl   == 1   \* clock steps per challenge lifetime
MaxTicks      == 2   \* clock steps over a run
BodyMaxTokens == 50  \* a max_tokens value a client sends
UsageTokens   == 10  \* a total_tokens value a provider reports

ChallengeTtlMs   == 600000
DefaultMaxTokens == 1000

Reqs == 1..MaxRequests

HexLower(b) == [bytes |-> b, upper |-> FALSE]
HexUpper(b) == [bytes |-> b, upper |-> TRUE]
EmptyString == [bytes |-> -1, upper |-> FALSE]
\* Buffer.from(preimage, 'hex')
HexDecode(h) == h.bytes
\* crypto.createHash('sha256').update(buffer).digest('hex')
Sha256Hex(b) == [sha256 |-> b]
\* crypto.createHmac('sha256', key).update(m1).update(m2)...digest('hex')
Hmac(key, msgs) == [key |-> key, msg |-> msgs]

SecretKey == [root |-> "secretKey"]

\* server.js configures the tiers without minPayment
Undefined == [defined |-> FALSE, val |-> 0]
Num(n)    == [defined |-> TRUE, val |-> n]
pricingTiers ==
    [p \in {"oobabooga", "grok", "chatgpt", "claude"} |->
        [pricePerToken |-> CASE p = "oobabooga" -> 1 [] p = "grok" -> 5
                             [] p = "chatgpt" -> 3 [] p = "claude" -> 4,
         minPayment |-> Undefined]]

\* the minimum payments of the README's pricing table (the gateway's own
\* default tiers carry the same values)
DocumentedMinPayment ==
    [p \in {"oobabooga", "grok", "chatgpt", "claude"} |->
        CASE p = "oobabooga" -> 10 [] p = "grok" -> 50
          [] p = "chatgpt" -> 30 [] p = "claude" -> 40]

Providers == DOMAIN pricingTiers
\* the providers a deployment has switched on (ENABLE_OOBABOOGA, GROK_API_KEY)
EnabledProviders == {"oobabooga", "grok"}

\* Math.max(a, b): NaN as soon as an argument is undefined
MathMax(a, b) ==
    IF ~a.defined \/ ~b.defined THEN [nan |-> TRUE, val |-> 0]
    ELSE [nan |-> FALSE, val |-> IF a.val >= b.val THEN a.val ELSE b.val]

NoSession == [exists |-> FALSE]

\* lnd.createInvoice: a fresh preimage and its hash
createInvoice(b) == [r_hash |-> Sha256Hex(b), preimage |-> HexLower(b)]

signMacaroon(identifier, data) == Hmac(SecretKey, <<identifier, data>>)

createL402Macaroon(data, timestamp) ==
    LET identifier == [version |-> 1, paymentHash |-> data.paymentHash,
                       timestamp |-> timestamp]
    IN  [identifier |-> identifier,
         location |-> "lightning-hub",
         caveats |-> << [key |-> "provider", value |-> data.provider],
                        [key |-> "max_tokens", value |-> ToString(data.maxTokens)],
                        [key |-> "expires", value |-> ToString(data.expiresAt)] >>,
         signature |-> signMacaroon(identifier, data)]

\* createChallenge: the session it stores under invoice.r_hash (the macaroon
\* is a function of the other fields, see IssuedMacaroon)
createChallenge(provider, estimatedTokens, b) ==
    LET tier == IF provider \in Providers THEN pricingTiers[provider]
                ELSE pricingTiers["oobabooga"]
        amountSats == MathMax(tier.minPayment, Num(estimatedTokens * tier.pricePerToken))
        invoice == createInvoice(b)
    IN  [exists |-> TRUE, provider |-> provider, maxTokens |-> estimatedTokens,
         amountSats |-> amountSats, preimage |-> invoice.preimage,
         createdAt |-> now, expiresAt |-> now + ChallengeTtlMs,
         paid |-> FALSE, used |-> FALSE, tokensUsed |-> Undefined]

\* session.macaroon, as createChallenge built it for the session under key k
IssuedMacaroon(k) ==
    createL402Macaroon([paymentHash |-> k, provider |-> sessions[k].provider,
                        maxTokens |-> sessions[k].maxTokens,
                        expiresAt |-> sessions[k].expiresAt],
                       sessions[k].createdAt)

\* a caveat of createL402Macaroon as the string the code writes, `key = value`
CaveatString(caveat) == <<caveat.key, " = ", caveat.value>>

\* the macaroon object of createL402Macaroon as a holder of macaroon.js reads
\* it: the caveats are strings and the signature is the hex digest
MacaroonObject(macaroon) ==
    [location |-> macaroon.location,
     identifier |-> macaroon.identifier,
     caveats |-> [i \in 1..Len(macaroon.caveats) |-> CaveatString(macaroon.caveats[i])],
     signature |-> HexLower(macaroon.signature)]

\* validateL402 without "if (Date.now() > session.expiresAt)"
validateL402_IgnoresExpiry(authHeader) ==
    LET preimage   == authHeader.preimage
        key        == authHeader.macaroon.identifier.paymentHash
        session    == sessions[key]
    IN  IF preimage = EmptyString
        THEN [valid |-> FALSE, error |-> "Invalid L402 format"]
        ELSE IF ~session.exists
        THEN [valid |-> FALSE, error |-> "Session not found"]
        ELSE IF preimage # session.preimage /\ Sha256Hex(HexDecode(preimage)) # key
        THEN [valid |-> FALSE, error |-> "Invalid preimage"]
        ELSE [valid |-> TRUE, error |-> ""]

\* validateL402 comparing the preimage with the stored one only
validateL402_StoredPreimageOnly(authHeader) ==
    LET preimage   == authHeader.preimage
        key        == authHeader.macaroon.identifier.paymentHash
        session    == sessions[key]
    IN  IF preimage = EmptyString
        THEN [valid |-> FALSE, error |-> "Invalid L402 format"]
        ELSE IF ~session.exists
        THEN [valid |-> FALSE, error |-> "Session not found"]
        ELSE IF now > session.expiresAt
        THEN [valid |-> FALSE, error |-> "Session expired"]
        ELSE IF preimage # session.preimage
        THEN [valid |-> FALSE, error |-> "Invalid preimage"]
        ELSE [valid |-> TRUE, error |-> ""]

\* validateL402 with "if (Date.now() >= session.expiresAt)"
validateL402_RejectsAtExpiry(authHeader) ==
    LET preimage   == authHeader.preimage
        key        == authHeader.macaroon.identifier.paymentHash
        session    == sessions[key]
    IN  IF preimage = EmptyString
        THEN [valid |-> FALSE, error |-> "Invalid L402 format"]
        ELSE IF ~session.exists
        THEN [valid |-> FALSE, error |-> "Session not found"]
        ELSE IF now >= session.expiresAt
        THEN [valid |-> FALSE, error |-> "Session expired"]
        ELSE IF preimage # session.preimage /\ Sha256Hex(HexDecode(preimage)) # key
        THEN [valid |-> FALSE, error |-> "Invalid preimage"]
        ELSE [valid |-> TRUE, error |-> ""]

\* validateL402 refusing a session that is already paid
validateL402_SingleUse(authHeader) ==
    LET preimage   == authHeader.preimage
        key        == authHeader.macaroon.identifier.paymentHash
        session    == sessions[key]
    IN  IF preimage = EmptyString
        THEN [valid |-> FALSE, error |-> "Invalid L402 format"]
        ELSE IF ~session.exists
        THEN [valid |-> FALSE, error |-> "Session not found"]
        ELSE IF now > session.expiresAt
        THEN [valid |-> FALSE, error |-> "Session expired"]
        ELSE IF preimage # session.preimage /\ Sha256Hex(HexDecode(preimage)) # key
        THEN [valid |-> FALSE, error |-> "Invalid preimage"]
        ELSE IF session.paid
        THEN [valid |-> FALSE, error |-> "Session already paid"]
        ELSE [valid |-> TRUE, error |-> ""]

\* validateL402: the result it returns for a header "L402 <macaroon>:<preimage>"
validateL402(authHeader) ==
    LET preimage   == authHeader.preimage
        identifier == authHeader.macaroon.identifier
        key        == identifier.paymentHash
        session    == sessions[key]
    IN  IF preimage = EmptyString
        THEN [valid |-> FALSE, error |-> "Invalid L402 format"]
        ELSE IF ~session.exists
        THEN [valid |-> FALSE, error |-> "Session not found"]
        ELSE IF now > session.expiresAt
        THEN [valid |-> FALSE, error |-> "Session expired"]
        ELSE IF preimage # session.preimage /\ Sha256Hex(HexDecode(preimage)) # key
        THEN [valid |-> FALSE, error |-> "Invalid preimage"]
        ELSE [valid |-> TRUE, error |-> ""]

SessionKeys == {Sha256Hex(b) : b \in 0..MaxSessions}

\* crypto.randomBytes(16).toString('hex'): the ids of prepaid sessions
SessionIds == {[sessionId |-> n] : n \in 1..MaxPrepaid}

\* the keys this.sessions can hold
StoreKeys == SessionKeys \cup SessionIds

\* a macaroon a client builds itself around a payment hash it knows
BuiltMacaroon(k) ==
    [identifier |-> [version |-> 1, paymentHash |-> k, timestamp |-> 0],
     location |-> "lightning-hub", caveats |-> <<>>, signature |-> [garbage |-> 1]]

NoAuth == [present |-> FALSE, macaroon |-> BuiltMacaroon(Sha256Hex(0)),
           preimage |-> EmptyString]

\* the macaroons a client can put in the header for session key k: the one
\* the gateway issued, that one with a caveat altered, or one it builds itself
ClientMacaroons(k) ==
    IF sessions[k].exists
    THEN {IssuedMacaroon(k),
          [IssuedMacaroon(k) EXCEPT
              !.caveats[2] = [key |-> "max_tokens", value |-> "999999"]],
          BuiltMacaroon(k)}
    ELSE {BuiltMacaroon(k)}

\* the preimages a client can put in the header for session key k
ClientPreimages(k) ==
    {EmptyString, HexLower(0)} \cup
    (IF sessions[k].exists
     THEN {sessions[k].preimage, HexUpper(HexDecode(sessions[k].preimage))}
     ELSE {})

Headers ==
    {NoAuth} \cup
    UNION {[present : {TRUE}, macaroon : ClientMacaroons(k), preimage : ClientPreimages(k)]
           : k \in SessionKeys}

\* request bodies: {provider, messages, max_tokens (0: not given), stream}
Bodies ==
    { [provider |-> "oobabooga", max_tokens |-> 0, shape |-> "chat"],
      [provider |-> "oobabooga", max_tokens |-> 0, shape |-> "nomessages"],
      [provider |-> "grok", max_tokens |-> BodyMaxTokens, shape |-> "stream"] }

IdleReq == [pc |-> "idle", provider |-> "", shape |-> "", key |-> Sha256Hex(0)]

\* res.status(status).json(...): the request is answered and its slot is free
Answered(status, error) == IdleReq

\* requests take the lowest free slot (the slots are interchangeable)
FreeReq(r) == reqs[r].pc = "idle" /\ \A q \in Reqs : q < r => reqs[q].pc # "idle"

Served ==
    revenue.byProvider["oobabooga"].requests + revenue.byProvider["grok"].requests
    + revenue.byProvider["chatgpt"].requests + revenue.byProvider["claude"].requests

\* what middleware() itself sends: nothing for a request it passes on with
\* next(), else res.status(402).json({...}) with the fields of the new
\* challenge (validated.error is in none of them)
MiddlewareResponse(auth, body) ==
    LET validated == validateL402(auth)
        estimatedTokens == IF body.max_tokens = 0 THEN DefaultMaxTokens
                           ELSE body.max_tokens
        challenge == createChallenge(body.provider, estimatedTokens, nextPreimage)
        r_hash == createInvoice(nextPreimage).r_hash
    IN  IF auth.present /\ validated.valid
        THEN [next |-> TRUE]
        ELSE [status |-> 402,
              error |-> "Payment Required",
              code |-> "L402_PAYMENT_REQUIRED",
              message |-> "Please pay the Lightning invoice to access this API",
              provider |-> body.provider,
              pricing |-> pricingTiers[body.provider],
              macaroon |-> createL402Macaroon(
                               [paymentHash |-> r_hash, provider |-> body.provider,
                                maxTokens |-> estimatedTokens,
                                expiresAt |-> challenge.expiresAt], now),
              payment_hash |-> r_hash,
              amount_sats |-> challenge.amountSats,
              expires_at |-> challenge.expiresAt]

Tick ==
    /\ now < MaxTicks * (ChallengeTtlMs \div TicksPerTtl)
    /\ now' = now + (ChallengeTtlMs \div TicksPerTtl)
    /\ UNCHANGED <<sessions, nextPreimage, revenue, reqs>>
    /\ UNCHANGED <<ledgerVars, macVars, fnVars, storeVars>>

\* middleware() calling next() without returning: the challenge follows
Middleware_FallsThrough(r, auth, body) ==
    /\ FreeReq(r)
    /\ \A q \in Reqs : reqs[q].pc # "admitted"
    /\ nextPreimage <= MaxSessions
    /\ LET validated == validateL402(auth)
           key == auth.macaroon.identifier.paymentHash
           estimatedTokens == IF body.max_tokens = 0 THEN DefaultMaxTokens
                              ELSE body.max_tokens
           challenge == createChallenge(body.provider, estimatedTokens, nextPreimage)
       IN  IF auth.present /\ validated.valid
           THEN /\ sessions' = [sessions EXCEPT ![key].paid = TRUE,
                                                ![Sha256Hex(nextPreimage)] = challenge]
                /\ reqs' = [reqs EXCEPT ![r] =
                              [IdleReq EXCEPT !.pc = "admitted", !.key = key,
                                              !.provider = body.provider,
                                              !.shape = body.shape]]
           ELSE /\ sessions' = [sessions EXCEPT ![Sha256Hex(nextPreimage)] = challenge]
                /\ reqs' = [reqs EXCEPT ![r] =
                      Answered(402, MiddlewareResponse(auth, body).error)]
    /\ nextPreimage' = nextPreimage + 1
    /\ UNCHANGED <<now, revenue>>
    /\ UNCHANGED <<ledgerVars, macVars, fnVars, storeVars>>

\* middleware() on POST /v1/chat: a valid credential is attached to the
\* request and passed on to the route, anything else is answered with 402 and
\* a new challenge
Middleware(r, auth, body) ==
    /\ FreeReq(r)
    /\ \A q \in Reqs : reqs[q].pc # "admitted"
    /\ LET validated == validateL402(auth)
           key == auth.macaroon.identifier.paymentHash
       IN  IF auth.present /\ validated.valid
           THEN /\ sessions' = [sessions EXCEPT ![key].paid = TRUE]
                /\ reqs' = [reqs EXCEPT ![r] =
                              [IdleReq EXCEPT !.pc = "admitted", !.key = key,
                                              !.provider = body.provider,
                                              !.shape = body.shape]]
                /\ UNCHANGED nextPreimage
           ELSE LET estimatedTokens == IF body.max_tokens = 0 THEN DefaultMaxTokens
                                       ELSE body.max_tokens
                IN  /\ nextPreimage <= MaxSessions
                    /\ sessions' = [sessions EXCEPT ![Sha256Hex(nextPreimage)] =
                          createChallenge(body.provider, estimatedTokens, nextPreimage)]
                    /\ nextPreimage' = nextPreimage + 1
                    /\ reqs' = [reqs EXCEPT ![r] =
                          Answered(402, MiddlewareResponse(auth, body).error)]
    /\ UNCHANGED <<now, revenue>>
    /\ UNCHANGED <<ledgerVars, macVars, fnVars, storeVars>>

\* router.post('/chat') up to the await on the provider; next() calls it
\* before any other request is taken
ChatRoute(r) ==
    /\ reqs[r].pc = "admitted"
    /\ IF reqs[r].provider \notin EnabledProviders \/ reqs[r].shape = "nomessages"
       THEN reqs' = [reqs EXCEPT ![r] = Answered(400, "")]
       ELSE reqs' = [reqs EXCEPT ![r].pc =
                       IF reqs[r].shape = "stream" THEN "chatStream" ELSE "chat"]
    /\ UNCHANGED <<now, sessions, nextPreimage, revenue>>
    /\ UNCHANGED <<ledgerVars, macVars, fnVars, storeVars>>

\* obj.f = v for each field f of upd: the field is added when obj lacks it
SetFields(obj, upd) ==
    [f \in DOMAIN obj \cup DOMAIN upd |-> IF f \in DOMAIN upd THEN upd[f] ELSE obj[f]]

\* recordUsage counting the request twice
recordUsage_CountsTwice(paymentHash, tokensUsed, provider) ==
    IF ~sessions[paymentHash].exists
    THEN [sessions |-> sessions, revenue |-> revenue]
    ELSE LET tier == pricingTiers[provider]
             satsCharged == tokensUsed * tier.pricePerToken
         IN  [sessions |-> [sessions EXCEPT ![paymentHash] =
                               SetFields(@, [used |-> TRUE,
                                             tokensUsed |-> Num(tokensUsed)])],
              revenue |-> [total |-> revenue.total + satsCharged,
                           byProvider |-> [revenue.byProvider EXCEPT ![provider] =
                               [requests |-> @.requests + 2,
                                tokens |-> @.tokens + tokensUsed,
                                sats |-> @.sats + satsCharged]]]]

\* recordUsage adding the tokens, not their price, to the total revenue
recordUsage_TotalInTokens(paymentHash, tokensUsed, provider) ==
    IF ~sessions[paymentHash].exists
    THEN [sessions |-> sessions, revenue |-> revenue]
    ELSE LET tier == pricingTiers[provider]
             satsCharged == tokensUsed * tier.pricePerToken
         IN  [sessions |-> [sessions EXCEPT ![paymentHash] =
                               SetFields(@, [used |-> TRUE,
                                             tokensUsed |-> Num(tokensUsed)])],
              revenue |-> [total |-> revenue.total + tokensUsed,
                           byProvider |-> [revenue.byProvider EXCEPT ![provider] =
                               [requests |-> @.requests + 1,
                                tokens |-> @.tokens + tokensUsed,
                                sats |-> @.sats + satsCharged]]]]

\* recordUsage adding the tokens, not their price, to the provider's sats
recordUsage_SatsInTokens(paymentHash, tokensUsed, provider) ==
    IF ~sessions[paymentHash].exists
    THEN [sessions |-> sessions, revenue |-> revenue]
    ELSE LET tier == pricingTiers[provider]
             satsCharged == tokensUsed * tier.pricePerToken
         IN  [sessions |-> [sessions EXCEPT ![paymentHash] =
                               SetFields(@, [used |-> TRUE,
                                             tokensUsed |-> Num(tokensUsed)])],
              revenue |-> [total |-> revenue.total + satsCharged,
                           byProvider |-> [revenue.byProvider EXCEPT ![provider] =
                               [requests |-> @.requests + 1,
                                tokens |-> @.tokens + tokensUsed,
                                sats |-> @.sats + tokensUsed]]]]

\* recordUsage taking the session back to unpaid once it is used
recordUsage_ClearsPaid(paymentHash, tokensUsed, provider) ==
    IF ~sessions[paymentHash].exists
    THEN [sessions |-> sessions, revenue |-> revenue]
    ELSE LET tier == pricingTiers[provider]
             satsCharged == tokensUsed * tier.pricePerToken
         IN  [sessions |-> [sessions EXCEPT ![paymentHash] =
                               SetFields(@, [used |-> TRUE, paid |-> FALSE,
                                             tokensUsed |-> Num(tokensUsed)])],
              revenue |-> [total |-> revenue.total + satsCharged,
                           byProvider |-> [revenue.byProvider EXCEPT ![provider] =
                               [requests |-> @.requests + 1,
                                tokens |-> @.tokens + tokensUsed,
                                sats |-> @.sats + satsCharged]]]]

\* recordUsage: the sessions and the revenue it leaves
recordUsage(paymentHash, tokensUsed, provider) ==
    IF ~sessions[paymentHash].exists
    THEN [sessions |-> sessions, revenue |-> revenue]
    ELSE LET tier == pricingTiers[provider]
             satsCharged == tokensUsed * tier.pricePerToken
         IN  [sessions |-> [sessions EXCEPT ![paymentHash] =
                               SetFields(@, [used |-> TRUE,
                                             tokensUsed |-> Num(tokensUsed)])],
              revenue |-> [total |-> revenue.total + satsCharged,
                           byProvider |-> [revenue.byProvider EXCEPT ![provider] =
                               [requests |-> @.requests + 1,
                                tokens |-> @.tokens + tokensUsed,
                                sats |-> @.sats + satsCharged]]]]

\* router.post('/chat') after the await, the provider having answered (or the
\* stream having ended): usage is recorded and the response sent
ProviderAnswers(r, totalTokens) ==
    /\ reqs[r].pc \in {"chat", "chatStream"}
    /\ Served < MaxServed
    /\ LET rec == recordUsage(reqs[r].key, totalTokens, reqs[r].provider)
       IN  /\ sessions' = rec.sessions
           /\ revenue' = rec.revenue
    /\ reqs' = [reqs EXCEPT ![r] = Answered(200, "")]
    /\ UNCHANGED <<now, nextPreimage>>
    /\ UNCHANGED <<ledgerVars, macVars, fnVars, storeVars>>

\* router.post('/chat') after the await, the provider having thrown: 500, or
\* an error event on the stream already begun
ProviderThrows(r) ==
    /\ reqs[r].pc \in {"chat", "chatStream"}
    /\ reqs' = [reqs EXCEPT ![r] =
                  Answered(IF reqs[r].pc = "chat" THEN 500 ELSE 200, "provider error")]
    /\ UNCHANGED <<now, sessions, nextPreimage, revenue>>
    /\ UNCHANGED <<ledgerVars, macVars, fnVars, storeVars>>

InitGW ==
    /\ now = 0
    /\ sessions = [k \in StoreKeys |-> NoSession]
    /\ nextPreimage = 1
    /\ revenue = [total |-> 0,
                  byProvider |-> [p \in Providers |->
                                     [requests |-> 0, tokens |-> 0, sats |-> 0]]]
    /\ reqs = [r \in Reqs |-> IdleReq]

NextGW ==
    \/ Tick
    \/ \E r \in Reqs, auth \in Headers, body \in Bodies : Middleware(r, auth, body)
    \/ \E r \in Reqs : ChatRoute(r)
    \/ \E r \in Reqs, t \in {UsageTokens} : ProviderAnswers(r, t)
    \/ \E r \in Reqs : ProviderThrows(r)

(***************************************************************************)
(* L402Gateway, its methods called directly, one call at a time, on the    *)
(* one session map: createChallenge, createPrepaidSession, validateL402,   *)
(* usePrepaidTokens and recordUsage. None of them awaits anything but      *)
(* lnd.createInvoice, which computes its result locally, so a call runs to *)
(* its end before the next one starts, in whatever order they are made.    *)
(***************************************************************************)
MaxCalls     == 2   \* validateL402, usePrepaidTokens and recordUsage calls over a run
MaxHours     == 2   \* hours passing over a run
BudgetTokens == 2   \* a token_budget a client sends
ExpiryHours  == 1   \* an expiry_hours a client sends

HourMs == 3600000

Calls == 1..MaxCalls

\* token_budget values POST /v1/prepaid/create lets through (any non-zero number)
TokenBudgets == {-1, BudgetTokens}

\* tokensUsed values: within the budget, and beyond it
TokensUsedInputs == {1, BudgetTokens + 1}

\* session.type (undefined on the sessions createChallenge stores)
TypeOf(session) == IF "type" \in DOMAIN session THEN session.type ELSE "undefined"

\* the payment hash of a stored session: the paymentHash field of a prepaid
\* session, invoice.r_hash = SHA-256(preimage) for a session of createChallenge
PaymentHashOf(session) ==
    IF "paymentHash" \in DOMAIN session THEN session.paymentHash
    ELSE Sha256Hex(HexDecode(session.preimage))

\* createPrepaidSession: the session it stores under sessionId
createPrepaidSession(provider, tokenBudget, expiryHours, b) ==
    LET tier == pricingTiers[provider]
        amountSats == tokenBudget * tier.pricePerToken
        invoice == createInvoice(b)
    IN  [exists |-> TRUE, type |-> "prepaid", provider |-> provider,
         tokenBudget |-> tokenBudget, tokensRemaining |-> tokenBudget,
         amountSats |-> amountSats, paymentHash |-> invoice.r_hash,
         preimage |-> invoice.preimage, createdAt |-> now,
         expiresAt |-> now + expiryHours * HourMs, paid |-> FALSE]

\* usePrepaidTokens without "if (tokensUsed > session.tokensRemaining)"
usePrepaidTokens_NoBalanceCheck(sessionId, tokensUsed) ==
    LET session == sessions[sessionId]
    IN  IF ~session.exists \/ TypeOf(session) # "prepaid"
        THEN [result |-> [success |-> FALSE, error |-> "Session not found"],
              sessions |-> sessions]
        ELSE IF ~session.paid
        THEN [result |-> [success |-> FALSE, error |-> "Session not paid"],
              sessions |-> sessions]
        ELSE [result |-> [success |-> TRUE, tokensUsed |-> tokensUsed,
                          tokensRemaining |-> session.tokensRemaining - tokensUsed],
              sessions |-> [sessions EXCEPT ![sessionId].tokensRemaining =
                                                @ - tokensUsed]]

\* usePrepaidTokens: what it returns and the sessions it leaves
usePrepaidTokens(sessionId, tokensUsed) ==
    LET session == sessions[sessionId]
    IN  IF ~session.exists \/ TypeOf(session) # "prepaid"
        THEN [result |-> [success |-> FALSE, error |-> "Session not found"],
              sessions |-> sessions]
        ELSE IF ~session.paid
        THEN [result |-> [success |-> FALSE, error |-> "Session not paid"],
              sessions |-> sessions]
        ELSE IF tokensUsed > session.tokensRemaining
        THEN [result |-> [success |-> FALSE, error |-> "Insufficient token balance",
                          remaining |-> session.tokensRemaining],
              sessions |-> sessions]
        ELSE [result |-> [success |-> TRUE, tokensUsed |-> tokensUsed,
                          tokensRemaining |-> session.tokensRemaining - tokensUsed],
              sessions |-> [sessions EXCEPT ![sessionId].tokensRemaining =
                                                @ - tokensUsed]]

\* the preimages a caller can present for key k: a wrong one, the preimage of
\* a payment hash (what paying the invoice reveals), the one stored in a
\* prepaid session
StorePreimages(k) ==
    {HexLower(0)} \cup
    (IF k \in SessionKeys THEN {HexLower(k.sha256)}
     ELSE IF sessions[k].exists THEN {sessions[k].preimage} ELSE {})

\* the credentials a caller can present: the issued macaroon for a session of
\* createChallenge, else a macaroon built around the key (createPrepaidSession
\* issues none)
StoreHeaders ==
    UNION {[present : {TRUE},
            macaroon : {IF k \in SessionKeys /\ sessions[k].exists
                        THEN IssuedMacaroon(k) ELSE BuiltMacaroon(k)},
            preimage : StorePreimages(k)]
           : k \in StoreKeys}

\* the method calls take the call records in turn
FreeCall(c) == Len(calls) = c - 1

HourPasses ==
    /\ now < MaxHours * HourMs
    /\ now' = now + HourMs
    /\ UNCHANGED <<sessions, nextPreimage, revenue, reqs>>
    /\ UNCHANGED <<ledgerVars, macVars, fnVars, storeVars>>

CallCreateChallenge(provider, estimatedTokens) ==
    /\ nextPreimage <= MaxSessions
    /\ sessions' = [sessions EXCEPT ![createInvoice(nextPreimage).r_hash] =
                      createChallenge(provider, estimatedTokens, nextPreimage)]
    /\ nextPreimage' = nextPreimage + 1
    /\ UNCHANGED <<now, revenue, reqs>>
    /\ UNCHANGED <<ledgerVars, macVars, fnVars, storeVars>>

CallCreatePrepaidSession(provider, tokenBudget, expiryHours) ==
    /\ nextPreimage <= MaxSessions
    /\ nextSessionId <= MaxPrepaid
    /\ sessions' = [sessions EXCEPT ![[sessionId |-> nextSessionId]] =
                      createPrepaidSession(provider, tokenBudget, expiryHours,
                                           nextPreimage)]
    /\ nextPreimage' = nextPreimage + 1
    /\ nextSessionId' = nextSessionId + 1
    /\ UNCHANGED <<now, revenue, reqs, calls>>
    /\ UNCHANGED <<ledgerVars, macVars, fnVars>>

\* a validateL402 call: the whole body runs at the call (it awaits nothing)
CallValidateL402(c, authHeader) ==
    /\ FreeCall(c)
    /\ LET validated == validateL402(authHeader)
           key == authHeader.macaroon.identifier.paymentHash
       IN  /\ sessions' = IF validated.valid
                          THEN [sessions EXCEPT ![key].paid = TRUE]
                          ELSE sessions
           /\ calls' = Append(calls, [op |-> "validateL402", arg |-> authHeader,
                                      result |-> validated])
    /\ UNCHANGED <<now, nextPreimage, revenue, reqs, nextSessionId>>
    /\ UNCHANGED <<ledgerVars, macVars, fnVars>>

CallUsePrepaidTokens(c, sessionId, tokensUsed) ==
    /\ FreeCall(c)
    /\ LET used == usePrepaidTokens(sessionId, tokensUsed)
       IN  /\ sessions' = used.sessions
           /\ calls' = Append(calls, [op |-> "usePrepaidTokens", arg |-> sessionId,
                                      result |-> used.result])
    /\ UNCHANGED <<now, nextPreimage, revenue, reqs, nextSessionId>>
    /\ UNCHANGED <<ledgerVars, macVars, fnVars>>

CallRecordUsage(c, paymentHash, tokensUsed, provider) ==
    /\ FreeCall(c)
    /\ LET rec == recordUsage(paymentHash, tokensUsed, provider)
       IN  /\ sessions' = rec.sessions
           /\ revenue' = rec.revenue
    /\ calls' = Append(calls, [op |-> "recordUsage", arg |-> paymentHash,
                               result |-> [provider |-> provider,
                                           tokensUsed |-> tokensUsed]])
    /\ UNCHANGED <<now, nextPreimage, reqs, nextSessionId>>
    /\ UNCHANGED <<ledgerVars, macVars, fnVars>>

InitStore ==
    /\ nextSessionId = 1
    /\ calls = <<>>

NextStore ==
    \/ HourPasses
    \/ \E provider \in EnabledProviders : CallCreateChallenge(provider, DefaultMaxTokens)
    \/ \E provider \in EnabledProviders, tokenBudget \in TokenBudgets :
          CallCreatePrepaidSession(provider, tokenBudget, ExpiryHours)
    \/ \E c \in Calls, authHeader \in StoreHeaders : CallValidateL402(c, authHeader)
    \/ \E c \in Calls, sessionId \in StoreKeys, tokensUsed \in TokensUsedInputs :
          CallUsePrepaidTokens(c, sessionId, tokensUsed)
    \/ \E c \in Calls, paymentHash \in StoreKeys, provider \in EnabledProviders :
          CallRecordUsage(c, paymentHash, UsageTokens, provider)

(***************************************************************************)
(* macaroon.js. A string is the sequence of its pieces, the separator      *)
(* " = " being a piece of its own, so that split(' = ') is computed.       *)
(***************************************************************************)
MaxCaveats == 2   \* addFirstPartyCaveat calls on one macaroon

RootKey  == [root |-> "rootKey"]
OtherKey == [root |-> "otherKey"]

Identifiers == {<<"id-1">>, <<"id-2">>}

CaveatStrings ==
    { <<"provider", " = ", "grok">>, <<"provider", " = ", "claude">>,
      <<"hasOwnProperty", " = ", "x">>, <<"toString", " = ", "x">>,
      <<"__proto__", " = ", "x">> }

NoMacaroon == [exists |-> FALSE]
NoVerdict  == [done |-> FALSE]

RECURSIVE SplitAt(_, _, _)
SplitAt(s, sep, cur) ==
    IF Len(s) = 0 THEN <<cur>>
    ELSE IF s[1] = sep THEN <<cur>> \o SplitAt(Tail(s), sep, "")
    ELSE SplitAt(Tail(s), sep, cur \o s[1])

\* String.prototype.split(sep)
split(s, sep) == SplitAt(s, sep, "")

\* the members every object inherits, by what a call with one string returns:
\* {}.hasOwnProperty(value) is false, {}.toString(value) is a non-empty
\* string, {}.__proto__ is an object and calling it throws a TypeError
ObjectPrototype ==
    [k \in {"hasOwnProperty", "toString", "__proto__"} |->
        CASE k = "hasOwnProperty" -> "returnsFalse"
          [] k = "toString" -> "returnsTruthy"
          [] k = "__proto__" -> "notAFunction"]

\* verifiers = {}
NoVerifiers == [k \in {} |-> "undefined"]

\* verifiers[key]: an own property, else the inherited one, else undefined
Property(verifiers, key) ==
    IF key \in DOMAIN verifiers THEN verifiers[key]
    ELSE IF key \in DOMAIN ObjectPrototype THEN ObjectPrototype[key]
    ELSE "undefined"

createMacaroon(location, identifier, rootKey) ==
    [location |-> location, identifier |-> identifier, caveats |-> <<>>,
     signature |-> HexLower(Hmac(rootKey, <<identifier>>))]

addFirstPartyCaveat(macaroon, caveat) ==
    [macaroon EXCEPT !.caveats = Append(@, caveat),
                     !.signature = HexLower(Hmac(HexDecode(macaroon.signature), <<caveat>>))]

RECURSIVE VerifyChain(_, _, _)
\* the loop of verifyMacaroon over the caveats left, the chain being at sig
VerifyChain(sig, caveats, verifiers) ==
    IF Len(caveats) = 0 THEN [valid |-> TRUE, error |-> "", sig |-> sig]
    ELSE LET caveat   == caveats[1]
             key      == split(caveat, " = ")[1]
             verifier == Property(verifiers, key)
         IN  IF verifier = "notAFunction"
             THEN [valid |-> FALSE, error |-> "verifiers[key] is not a function", sig |-> sig]
             ELSE IF verifier = "returnsFalse"
             THEN [valid |-> FALSE, error |-> "Caveat failed", sig |-> sig]
             ELSE VerifyChain(Hmac(sig, <<caveat>>), Tail(caveats), verifiers)

verifyMacaroon(macaroon, rootKey, verifiers) ==
    LET chain == VerifyChain(Hmac(rootKey, <<macaroon.identifier>>),
                             macaroon.caveats, verifiers)
    IN  IF ~chain.valid THEN [valid |-> FALSE, error |-> chain.error]
        ELSE IF HexLower(chain.sig) # macaroon.signature
        THEN [valid |-> FALSE, error |-> "Signature mismatch"]
        ELSE [valid |-> TRUE, error |-> ""]

\* the signatures a holder can write in place of the macaroon's own: the same
\* digits in upper case, the signature under another key, the signature the
\* macaroon had before its caveats were added
TamperedSignatures(macaroon) ==
    IF macaroon = NoMacaroon THEN {}
    ELSE { HexUpper(HexDecode(macaroon.signature)),
           createMacaroon(macaroon.location, macaroon.identifier, OtherKey).signature,
           createMacaroon(macaroon.location, macaroon.identifier, RootKey).signature }
         \ {macaroon.signature}

CreateMacaroon(identifier) ==
    /\ mac = NoMacaroon
    /\ mac' = createMacaroon("lightning-hub", identifier, RootKey)
    /\ UNCHANGED <<presented, verdict>>
    /\ UNCHANGED <<ledgerVars, gwVars, fnVars, storeVars>>

AddFirstPartyCaveat(caveat) ==
    /\ mac # NoMacaroon
    /\ presented = NoMacaroon
    /\ Len(mac.caveats) < MaxCaveats
    /\ mac' = addFirstPartyCaveat(mac, caveat)
    /\ UNCHANGED <<presented, verdict>>
    /\ UNCHANGED <<ledgerVars, gwVars, fnVars, storeVars>>

\* the macaroon comes back from its holder as it was issued
PresentUnmodified ==
    /\ mac # NoMacaroon
    /\ presented = NoMacaroon
    /\ presented' = mac
    /\ UNCHANGED <<mac, verdict>>
    /\ UNCHANGED <<ledgerVars, gwVars, fnVars, storeVars>>

\* ... or with one thing changed: the signature,
TamperSignature(signature) ==
    /\ mac # NoMacaroon
    /\ presented = NoMacaroon
    /\ signature \in TamperedSignatures(mac)
    /\ presented' = [mac EXCEPT !.signature = signature]
    /\ UNCHANGED <<mac, verdict>>
    /\ UNCHANGED <<ledgerVars, gwVars, fnVars, storeVars>>

\* the identifier,
TamperIdentifier(identifier) ==
    /\ mac # NoMacaroon
    /\ presented = NoMacaroon
    /\ identifier # mac.identifier
    /\ presented' = [mac EXCEPT !.identifier = identifier]
    /\ UNCHANGED <<mac, verdict>>
    /\ UNCHANGED <<ledgerVars, gwVars, fnVars, storeVars>>

\* one caveat string,
TamperCaveat(i, caveat) ==
    /\ mac # NoMacaroon
    /\ presented = NoMacaroon
    /\ i \in 1..Len(mac.caveats)
    /\ caveat # mac.caveats[i]
    /\ presented' = [mac EXCEPT !.caveats[i] = caveat]
    /\ UNCHANGED <<mac, verdict>>
    /\ UNCHANGED <<ledgerVars, gwVars, fnVars, storeVars>>

\* a caveat removed,
RemoveCaveat(i) ==
    /\ mac # NoMacaroon
    /\ presented = NoMacaroon
    /\ i \in 1..Len(mac.caveats)
    /\ presented' = [mac EXCEPT !.caveats =
                        SubSeq(@, 1, i - 1) \o SubSeq(@, i + 1, Len(@))]
    /\ UNCHANGED <<mac, verdict>>
    /\ UNCHANGED <<ledgerVars, gwVars, fnVars, storeVars>>

\* or two caveats exchanged
ReorderCaveats(i, j) ==
    /\ mac # NoMacaroon
    /\ presented = NoMacaroon
    /\ i \in 1..Len(mac.caveats)
    /\ j \in 1..Len(mac.caveats)
    /\ i < j
    /\ presented' = [mac EXCEPT !.caveats[i] = mac.caveats[j],
                                !.caveats[j] = mac.caveats[i]]
    /\ UNCHANGED <<mac, verdict>>
    /\ UNCHANGED <<ledgerVars, gwVars, fnVars, storeVars>>

VerifyMacaroon ==
    /\ presented # NoMacaroon
    /\ verdict = NoVerdict
    /\ verdict' = verifyMacaroon(presented, RootKey, NoVerifiers)
    /\ UNCHANGED <<mac, presented>>
    /\ UNCHANGED <<ledgerVars, gwVars, fnVars, storeVars>>

InitMac ==
    /\ mac = NoMacaroon
    /\ presented = NoMacaroon
    /\ verdict = NoVerdict

NextMac ==
    \/ \E identifier \in Identifiers : CreateMacaroon(identifier)
    \/ \E caveat \in CaveatStrings : AddFirstPartyCaveat(caveat)
    \/ PresentUnmodified
    \/ \E signature \in TamperedSignatures(mac) : TamperSignature(signature)
    \/ \E identifier \in Identifiers : TamperIdentifier(identifier)
    \/ \E i \in 1..MaxCaveats, caveat \in CaveatStrings : TamperCaveat(i, caveat)
    \/ \E i \in 1..MaxCaveats : RemoveCaveat(i)
    \/ \E i \in 1..MaxCaveats, j \in 1..MaxCaveats : ReorderCaveats(i, j)
    \/ VerifyMacaroon

(***************************************************************************)
(* The pure functions of CashuService, each applied once to an input.      *)
(***************************************************************************)
MaxSplitInput   == 20000  \* amounts passed to splitAmount
MaxTokenProofs  == 2      \* proofs in a token passed to serializeToken
MaxTokenSecrets == 2      \* distinct secrets among them

\* the proofs a token can hold
TokenProofs == [amount : {1, 64}, secret : 1..MaxTokenSecrets]

TokenProofLists == UNION {[1..n -> TokenProofs] : n \in 1..MaxTokenProofs}

NoCall == [fn |-> "none"]

CallSplitAmount(amount) ==
    /\ fnCall = NoCall
    /\ fnCall' = [fn |-> "splitAmount", amount |-> amount]
    /\ fnResult' = [denominations |-> splitAmount(amount)]
    /\ UNCHANGED <<ledgerVars, gwVars, macVars, storeVars>>

\* deserializeToken(serializeToken(proofs))
CallTokenRoundTrip(ps) ==
    /\ fnCall = NoCall
    /\ fnCall' = [fn |-> "serializeToken", proofs |-> ps]
    /\ fnResult' = [token |-> serializeToken(ps),
                    parsed |-> deserializeToken(serializeToken(ps))]
    /\ UNCHANGED <<ledgerVars, gwVars, macVars, storeVars>>

MaxRandom == 2   \* values crypto.randomBytes can return in one call

\* how a fetch to the mint can end: a 2xx response with a JSON body, a 2xx
\* response whose body is not JSON, a response with !response.ok, a network
\* error
FetchOutcomes == {"ok", "badJson", "notOk", "networkError"}

RandomHex == 1..MaxRandom

\* "return response.json()" inside try: the mint's own answer, or, the promise
\* being returned without await, a rejection the catch block never sees
ResponseJson(endpoint, outcome) ==
    IF outcome = "ok" THEN [mint |-> endpoint]
    ELSE [rejected |-> "SyntaxError"]

\* getMintInfo: what it resolves to
getMintInfo(outcome) ==
    IF outcome \in {"ok", "badJson"} THEN ResponseJson("/v1/info", outcome)
    ELSE [name |-> "Lightning Hub Mint", version |-> "Nutshell/0.15.0",
          description |-> "Cashu mint powered by Lightning",
          nuts |-> <<"4", "5">>]

\* getKeysets: what it resolves to
getKeysets(outcome, random) ==
    IF outcome \in {"ok", "badJson"} THEN ResponseJson("/v1/keysets", outcome)
    ELSE [keysets |-> << [id |-> <<"00", random>>, unit |-> "sat", active |-> TRUE] >>]

\* requestMintQuote: what it resolves to
requestMintQuote(amount, outcome, random) ==
    IF outcome \in {"ok", "badJson"}
    THEN ResponseJson("/v1/mint/quote/bolt11", outcome)
    ELSE [quote |-> random, request |-> <<"lnbc", amount, "0n1p", random>>,
          state |-> "UNPAID", expiry |-> (now \div 1000) + 600]

\* requestMeltQuote: what it resolves to
requestMeltQuote(invoice, outcome, random) ==
    IF outcome \in {"ok", "badJson"}
    THEN ResponseJson("/v1/melt/quote/bolt11", outcome)
    ELSE [quote |-> random, amount |-> 1000, fee_reserve |-> 10,
          state |-> "UNPAID", expiry |-> (now \div 1000) + 600]

\* checkTokenState: what it resolves to
checkTokenState(ps, outcome) ==
    IF outcome \in {"ok", "badJson"} THEN ResponseJson("/v1/checkstate", outcome)
    ELSE [states |-> [i \in 1..Len(ps) |-> [state |-> "UNSPENT"]]]

\* the operations that only ask the mint and change nothing in the service
MintQueries ==
    {"getMintInfo", "getKeysets", "requestMintQuote", "requestMeltQuote",
     "checkTokenState"}

\* result.mock, as mintTokens and meltTokens set it on what they make up
IsFlaggedMock(result) == "mock" \in DOMAIN result /\ result.mock = TRUE

CallGetMintInfo(outcome) ==
    /\ fnCall' = [fn |-> "getMintInfo", outcome |-> outcome]
    /\ fnResult' = getMintInfo(outcome)
    /\ UNCHANGED <<ledgerVars, gwVars, macVars, storeVars>>

CallGetKeysets(outcome, random) ==
    /\ fnCall' = [fn |-> "getKeysets", outcome |-> outcome]
    /\ fnResult' = getKeysets(outcome, random)
    /\ UNCHANGED <<ledgerVars, gwVars, macVars, storeVars>>

CallRequestMintQuote(amount, outcome, random) ==
    /\ fnCall' = [fn |-> "requestMintQuote", amount |-> amount, outcome |-> outcome]
    /\ fnResult' = requestMintQuote(amount, outcome, random)
    /\ UNCHANGED <<ledgerVars, gwVars, macVars, storeVars>>

CallRequestMeltQuote(invoice, outcome, random) ==
    /\ fnCall' = [fn |-> "requestMeltQuote", invoice |-> invoice, outcome |-> outcome]
    /\ fnResult' = requestMeltQuote(invoice, outcome, random)
    /\ UNCHANGED <<ledgerVars, gwVars, macVars, storeVars>>

CallCheckTokenState(ps, outcome) ==
    /\ fnCall' = [fn |-> "checkTokenState", proofs |-> ps, outcome |-> outcome]
    /\ fnResult' = checkTokenState(ps, outcome)
    /\ UNCHANGED <<ledgerVars, gwVars, macVars, storeVars>>

InitFn ==
    /\ fnCall = NoCall
    /\ fnResult = NoCall

NextFn ==
    /\ fnCall = NoCall
    /\ \/ \E amount \in 0..MaxSplitInput : CallSplitAmount(amount)
       \/ \E ps \in TokenProofLists : CallTokenRoundTrip(ps)
       \/ \E outcome \in FetchOutcomes : CallGetMintInfo(outcome)
       \/ \E outcome \in FetchOutcomes, random \in RandomHex :
             CallGetKeysets(outcome, random)
       \/ \E amount \in Amounts, outcome \in FetchOutcomes, random \in RandomHex :
             CallRequestMintQuote(amount, outcome, random)
       \/ \E outcome \in FetchOutcomes, random \in RandomHex :
             CallRequestMeltQuote(<<"lnbc", 1>>, outcome, random)
       \/ \E ps \in TokenProofLists, outcome \in FetchOutcomes :
             CallCheckTokenState(ps, outcome)

Init == InitLedger /\ InitGW /\ InitMac /\ InitFn /\ InitStore

Spec == Init /\ [][Next]_vars

SpecGW == Init /\ [][NextGW]_vars

SpecRace == Init /\ [][NextRace]_vars

SpecMac == Init /\ [][NextMac]_vars

SpecFn == Init /\ [][NextFn]_vars

SpecMint == Init /\ [][NextMint]_vars

SpecStore == Init /\ [][NextStore]_vars

(***************************************************************************)
(* The claims.                                                             *)
(***************************************************************************)

\* C1: once every ledger-mutating call (mintTokens, meltTokens, send,
\* receive, swapTokens) has finished, whatever the mint answered, the cached
\* balance equals the sum of the amounts of the proofs in the ledger.
C1_BalanceIsSumOfProofs ==
    Idle => balance = SumAmounts(proofs)

\* C2: a request is admitted only for a session recordUsage has not yet
\* marked used, and the usage records never outnumber the sessions used: one
\* payment is billed at most once, also when two requests with the same
\* credential are in flight together.
C2_UsedSessionNotAdmittedAgain ==
    [][ /\ \A r \in Reqs :
              (reqs[r].pc = "idle" /\ reqs'[r].pc = "admitted")
                  => ~sessions[reqs'[r].key].used
        /\ Served' <= Cardinality({k \in SessionKeys :
                                      sessions'[k].exists /\ sessions'[k].used})
      ]_vars

\* C3: a credential whose macaroon is not the one the gateway issued for the
\* session (a caveat or the signature altered, or built by the client around
\* the payment hash) is not admitted, whatever preimage comes with it.
C3_ForgedMacaroonRejected ==
    [][ \A r \in Reqs, auth \in Headers, body \in Bodies :
            LET key == auth.macaroon.identifier.paymentHash
            IN  ( /\ auth.present
                  /\ \/ ~sessions[key].exists
                     \/ auth.macaroon # IssuedMacaroon(key)
                  /\ Middleware(r, auth, body) )
                => reqs'[r].pc # "admitted"
      ]_vars

\* C4: a credential naming a session whose expiresAt is in the past is never
\* validated nor admitted, whatever macaroon and preimage it carries and
\* whether the session was paid or not; the clock never goes back and no step
\* removes a session or changes its expiresAt, so the failure is permanent.
C4_ExpiredSessionAlwaysFails ==
    [][ /\ \A r \in Reqs, auth \in Headers, body \in Bodies :
              LET key == auth.macaroon.identifier.paymentHash
              IN  ( /\ auth.present
                    /\ sessions[key].exists
                    /\ now > sessions[key].expiresAt
                    /\ Middleware(r, auth, body) )
                  => /\ ~validateL402(auth).valid
                     /\ reqs'[r].pc # "admitted"
        /\ now' >= now
        /\ \A k \in SessionKeys :
              sessions[k].exists =>
                  /\ sessions'[k].exists
                  /\ sessions'[k].expiresAt = sessions[k].expiresAt
      ]_vars

\* C4 witness: a paid session has expired and a challenge was issued after
\* its expiry (the middleware ran while the session was expired).
C4_Witness ==
    \E k \in SessionKeys, j \in SessionKeys :
        /\ sessions[k].exists /\ sessions[k].paid
        /\ now > sessions[k].expiresAt
        /\ sessions[j].exists
        /\ sessions[j].createdAt > sessions[k].expiresAt

\* C5: for an existing unexpired session the credential is accepted exactly
\* when the preimage equals the stored one or its SHA-256 equals the payment
\* hash of the identifier; on acceptance paid is true, otherwise the result
\* is valid:false and paid is what it was.
C5_AcceptsIffPreimageMatches ==
    [][ \A r \in Reqs, auth \in Headers, body \in Bodies :
            LET key     == auth.macaroon.identifier.paymentHash
                matches == \/ auth.preimage = sessions[key].preimage
                           \/ Sha256Hex(HexDecode(auth.preimage)) = key
            IN  ( /\ auth.present
                  /\ sessions[key].exists
                  /\ now <= sessions[key].expiresAt
                  /\ Middleware(r, auth, body) )
                => /\ validateL402(auth).valid <=> matches
                   /\ reqs'[r].pc = "admitted" <=> matches
                   /\ matches => sessions'[key].paid
                   /\ ~matches => sessions'[key].paid = sessions[key].paid
      ]_vars

\* C5 witness: a request was admitted on a session now paid, while another
\* session is still unpaid.
C5_Witness ==
    \E r \in Reqs, j \in SessionKeys :
        /\ reqs[r].pc = "admitted"
        /\ sessions[reqs[r].key].exists /\ sessions[reqs[r].key].paid
        /\ sessions[j].exists /\ ~sessions[j].paid

\* C6: a macaroon built by createMacaroon and addFirstPartyCaveat calls
\* verifies with no verifiers exactly when it is presented as built; with the
\* signature, the identifier or a caveat changed, a caveat removed or two
\* caveats exchanged, it does not.
C6_VerifiesIffUnmodified ==
    verdict # NoVerdict => (verdict.valid <=> presented = mac)

\* C7: when the mint rejects the melt or cannot be reached, meltTokens leaves
\* the proofs and the balance as they were before the call.
C7_FailedMeltLeavesLedger ==
    [][ \A o \in Ops :
            (MeltResolve(o) /\ ops[o].resp \in {"reject", "unreachable"})
                => (proofs' = proofs /\ balance' = balance)
      ]_vars

\* C8: receive credits the balance with the total of the new proofs the swap
\* put in the ledger: nothing when the mint did not accept the swap.
C8_ReceiveCreditsNewProofs ==
    [][ \A o \in Ops :
            ReceiveResolve(o) =>
                balance' = balance + SumAmounts(
                    SelectSeq(proofs', LAMBDA p : p.secret \notin Secrets(proofs)))
      ]_vars

\* C9: the proofs a meltTokens or swapTokens call has selected and not yet
\* removed are still in the ledger and are selected by no other call.
C9_NoProofSelectedTwice ==
    \A o \in Ops :
        ops[o].pc \in {"meltWait", "swapWait"} =>
            /\ Secrets(ops[o].proofs) \subseteq Secrets(proofs)
            /\ \A q \in Ops \ {o} :
                  ops[q].pc \in {"meltWait", "swapWait"} =>
                      Secrets(ops[o].proofs) \cap Secrets(ops[q].proofs) = {}

\* C10: a provider call that completes records usage exactly once (the
\* provider's requests counter grows by 1 and no other counter moves); a
\* request answered with 402, with 400 or with a provider error records none.
C10_OneUsageRecordPerRequest ==
    [][ /\ \A r \in Reqs :
              ProviderAnswers(r, UsageTokens) =>
                  /\ Served' = Served + 1
                  /\ revenue'.byProvider[reqs[r].provider].requests
                        = revenue.byProvider[reqs[r].provider].requests + 1
                  /\ sessions'[reqs[r].key].used
        /\ \A r \in Reqs :
              ( \/ ProviderThrows(r)
                \/ ChatRoute(r) /\ reqs'[r].pc = "idle"
                \/ FreeReq(r) /\ nextPreimage' # nextPreimage )
                  => /\ revenue' = revenue
                     /\ \A k \in SessionKeys :
                           sessions[k].exists =>
                               sessions'[k].used = sessions[k].used
      ]_vars

\* C10 witness: a provider call has completed and its session is marked used
\* with the tokens the provider reported.
C10_Witness ==
    /\ Served >= 1
    /\ \E k \in SessionKeys :
          /\ sessions[k].exists /\ sessions[k].used
          /\ sessions[k].tokensUsed = Num(UsageTokens)
\* C11: when the mint answers a mint request with a number of signatures
\* other than the number of blinded messages submitted, mintTokens changes
\* neither the proofs nor the balance.
C11_SignatureCountMismatchLeavesLedger ==
    [][ \A o \in Ops :
            ( /\ ops[o].pc = "mintWait"
              /\ ops[o].resp \in {"accept", "short"}
              /\ Len(ResponseSignatures(ops[o].resp, splitAmount(ops[o].amount)))
                    # Len(createBlindedMessages(ops[o].amount, 1).blindedMessages)
              /\ MintResolve(o) )
                => (proofs' = proofs /\ balance' = balance)
      ]_vars
\* C12: when swapTokens finishes (called directly or by receive), either the
\* mint answered and, in that one step, the given proofs left the ledger and
\* the proofs unblinded from the answer entered it, or the mint did not
\* accept and the proofs are unchanged; swapTokens never changes the balance.
C12_SwapIsAtomic ==
    [][ \A o \in Ops :
            ( /\ ops[o].pc \in {"swapWait", "receiveWait"}
              /\ SwapResolve(o) \/ ReceiveResolve(o) )
                => LET signatures == ResponseSignatures(ops[o].resp,
                                                        splitAmount(ops[o].amount))
                       inserted   == {ops[o].secrets[i] : i \in 1..Len(signatures)}
                   IN  /\ IF ops[o].resp \in {"accept", "short"}
                          THEN Secrets(proofs') =
                                  (Secrets(proofs) \ Secrets(ops[o].proofs)) \cup inserted
                          ELSE proofs' = proofs
                       /\ SwapResolve(o) => balance' = balance
      ]_vars

\* C12 witness: the mint has accepted a swap of proofs held in the ledger and
\* swapTokens is about to exchange them.
C12_Witness ==
    \E o \in Ops :
        /\ ops[o].pc = "swapWait"
        /\ ops[o].resp = "accept"
        /\ Secrets(ops[o].proofs) # {}
        /\ Secrets(ops[o].proofs) \subseteq Secrets(proofs)
\* C13: with amount greater than the sum of the ledger's proofs, selectProofs
\* raises Insufficient balance, and send(amount) changes neither the proofs
\* nor the balance (and hands out no token).
C13_InsufficientBalanceMutatesNothing ==
    [][ \A a \in Amounts :
            a > SumAmounts(proofs) =>
                /\ ~selectProofs(proofs, a).ok
                /\ Send(a) => (proofs' = proofs /\ balance' = balance
                               /\ tokens' = tokens)
      ]_vars

\* C13 witness: no call is in flight and the ledger holds proofs worth less
\* than an amount send can be asked for.
C13_Witness ==
    /\ Idle
    /\ proofs # <<>>
    /\ SumAmounts(proofs) < MaxAmount
\* C14: a send(amount) that succeeds removes from the ledger exactly the
\* proofs selectProofs(amount) chose, whose total is at least amount, returns
\* a token holding exactly those proofs, and lowers the balance by amount;
\* the proofs not chosen stay, in their order.
C14_SendRemovesSelectedProofs ==
    [][ \A a \in Amounts :
            (a <= SumAmounts(proofs) /\ Send(a)) =>
                LET selected == selectProofs(proofs, a).proofs
                IN  /\ SumAmounts(selected) >= a
                    /\ Secrets(selected) \subseteq Secrets(proofs)
                    /\ Secrets(proofs') = Secrets(proofs) \ Secrets(selected)
                    /\ Len(proofs') = Len(proofs) - Len(selected)
                    /\ proofs' = SelectSeq(proofs,
                                    LAMBDA p : p.secret \notin Secrets(selected))
                    /\ Cardinality(tokens') = 1
                    /\ \A t \in tokens' :
                          /\ deserializeToken(t).ok
                          /\ deserializeToken(t).proofs = selected
                    /\ balance' = balance - a
      ]_vars

\* C14 witness: send has handed out a token and the ledger still holds
\* proofs.
C14_Witness ==
    /\ Idle
    /\ tokens # {}
    /\ proofs # <<>>
\* C15: a mintTokens(quote, amount) call that completes appends exactly one
\* proof per denomination of splitAmount(amount), in that order, and raises
\* the balance by amount; for amount 100 the denominations are 64, 32, 4.
C15_MintAppendsOneProofPerDenomination ==
    [][ /\ splitAmount(100) = <<64, 32, 4>>
        /\ \A o \in Ops :
              (ops[o].pc = "mintWait" /\ MintResolve(o)) =>
                  LET denominations == splitAmount(ops[o].amount)
                  IN  /\ Len(proofs') = Len(proofs) + Len(denominations)
                      /\ SubSeq(proofs', 1, Len(proofs)) = proofs
                      /\ \A i \in 1..Len(denominations) :
                            proofs'[Len(proofs) + i].amount = denominations[i]
                      /\ balance' = balance + ops[o].amount
      ]_vars
\* C16: for every integer amount a >= 0 the elements of splitAmount(a) sum to
\* a, and each of them is a power of two between 1 and 8192.
C16_SplitAmountSumsToAmount ==
    fnCall.fn = "splitAmount" =>
        LET d == fnResult.denominations
        IN  /\ SumAmounts([i \in 1..Len(d) |-> [amount |-> d[i]]]) = fnCall.amount
            /\ \A i \in 1..Len(d) : \E k \in 0..13 : d[i] = 2^k

\* C16 witness: splitAmount was applied to an amount above twice the largest
\* denomination (the largest denomination is used more than once).
C16_Witness ==
    /\ fnCall.fn = "splitAmount"
    /\ fnCall.amount > 2 * MaxDenomination
    /\ Len(fnResult.denominations) >= 2
    /\ fnResult.denominations[2] = MaxDenomination

\* C17: for a non-empty proof list, deserializeToken(serializeToken(proofs))
\* returns the ledger's mint URL and a proof list equal to the input.
C17_TokenRoundTrip ==
    fnCall.fn = "serializeToken" =>
        /\ fnResult.parsed.ok
        /\ fnResult.parsed.mint = MintUrl
        /\ fnResult.parsed.proofs = fnCall.proofs

\* C17 witness: a token of several proofs was serialized and parsed back.
C17_Witness ==
    /\ fnCall.fn = "serializeToken"
    /\ Len(fnCall.proofs) >= 2
    /\ fnResult.parsed.ok
\* C18: receive of a token naming a mint other than the ledger's starts no
\* swap (no request goes to the mint, no secret is drawn) and leaves the
\* proofs and the balance unchanged.
C18_ForeignMintTokenRefused ==
    [][ \A o \in Ops, t \in ReceivableTokens :
            ( /\ deserializeToken(t).mint \notin {"", MintUrl}
              /\ ReceiveStart(o, t) )
                => /\ ops' = ops
                   /\ nextSecret' = nextSecret
                   /\ proofs' = proofs
                   /\ balance' = balance
      ]_vars

\* C18 witness: no call is in flight and a token naming another mint can be
\* handed to receive.
C18_Witness ==
    /\ Idle
    /\ \E t \in ReceivableTokens :
          /\ deserializeToken(t).ok
          /\ deserializeToken(t).mint = ForeignMintUrl
          /\ deserializeToken(t).proofs # <<>>
\* C19: the challenge issued for a request to the baseline provider carries
\* amount_sats = max(minPayment, ceil(estimatedTokens x pricePerToken)) of
\* that provider's tier, minPayment being the documented 10 sats and
\* estimatedTokens 1000 when the request gives no max_tokens.
C19_ChallengeAmountIsTierMaximum ==
    \A k \in SessionKeys :
        (sessions[k].exists /\ sessions[k].provider = "oobabooga") =>
            /\ sessions[k].maxTokens = DefaultMaxTokens
            /\ sessions[k].amountSats =
                  MathMax(Num(DocumentedMinPayment["oobabooga"]),
                          Num(sessions[k].maxTokens
                              * pricingTiers["oobabooga"].pricePerToken))
\* C20: the middleware does exactly one of two things. With a header present
\* that validates, the request goes on to the route with the session's key
\* attached and no session is created; otherwise it is answered with a fresh
\* challenge (a new unpaid, unused session under a new payment hash, expiring
\* one lifetime from now) and never reaches the route.
C20_MiddlewareAdmitsOrChallenges ==
    [][ \A r \in Reqs, auth \in Headers, body \in Bodies :
            Middleware(r, auth, body) =>
                LET key   == auth.macaroon.identifier.paymentHash
                    fresh == Sha256Hex(nextPreimage)
                IN  IF auth.present /\ validateL402(auth).valid
                    THEN /\ reqs'[r].pc = "admitted"
                         /\ reqs'[r].key = key
                         /\ nextPreimage' = nextPreimage
                         /\ \A k \in SessionKeys :
                               sessions'[k].exists = sessions[k].exists
                    ELSE /\ reqs' = reqs
                         /\ nextPreimage' = nextPreimage + 1
                         /\ ~sessions[fresh].exists
                         /\ sessions'[fresh].exists
                         /\ ~sessions'[fresh].paid /\ ~sessions'[fresh].used
                         /\ sessions'[fresh].provider = body.provider
                         /\ sessions'[fresh].preimage = createInvoice(nextPreimage).preimage
                         /\ sessions'[fresh].expiresAt = now + ChallengeTtlMs
                         /\ \A k \in SessionKeys \ {fresh} :
                               sessions'[k] = sessions[k]
      ]_vars

\* C20 witness: one challenge has been issued and a request presenting its
\* credential has been passed on to the route, no second session existing.
C20_Witness ==
    \E r \in Reqs :
        /\ reqs[r].pc = "admitted"
        /\ sessions[reqs[r].key].exists /\ sessions[reqs[r].key].paid
        /\ Cardinality({k \in SessionKeys : sessions[k].exists}) = 1

\* C21: challenge, pay, retry leads to access. A request carrying the macaroon
\* the gateway issued for a session and a preimage whose SHA-256 is the
\* session's payment hash, made no later than the session's expiresAt, is
\* passed on to the route under that session and no new challenge is issued;
\* the route then answers it itself (400, or the provider's answer), again
\* without a new challenge.
C21_PaidRetryIsAdmitted ==
    [][ /\ \A r \in Reqs, auth \in Headers, body \in Bodies :
              LET key == auth.macaroon.identifier.paymentHash
              IN  ( /\ auth.present
                    /\ sessions[key].exists
                    /\ auth.macaroon = IssuedMacaroon(key)
                    /\ Sha256Hex(HexDecode(auth.preimage)) = key
                    /\ now <= sessions[key].expiresAt
                    /\ Middleware(r, auth, body) )
                  => /\ reqs'[r].pc = "admitted"
                     /\ reqs'[r].key = key
                     /\ nextPreimage' = nextPreimage
        /\ \A r \in Reqs :
              (reqs[r].pc = "admitted" /\ reqs'[r] # reqs[r])
                  => /\ reqs'[r].pc \in {"idle", "chat", "chatStream"}
                     /\ nextPreimage' = nextPreimage
      ]_vars

\* C21 witness: the only challenge issued was paid and retried, and the route
\* has handed the request to the provider the challenge was issued for.
C21_Witness ==
    \E r \in Reqs :
        /\ reqs[r].pc \in {"chat", "chatStream"}
        /\ sessions[reqs[r].key].exists /\ sessions[reqs[r].key].paid
        /\ reqs[r].provider = sessions[reqs[r].key].provider
        /\ Cardinality({k \in SessionKeys : sessions[k].exists}) = 1

\* C22: a request whose credential fails validation (no such session, session
\* expired, wrong preimage, no preimage in the header) gets an answer that
\* differs from the plain payment challenge the same request would get
\* without a credential.
C22_InvalidCredentialGetsTypedFailure ==
    [][ \A r \in Reqs, auth \in Headers, body \in Bodies :
            ( /\ auth.present
              /\ ~validateL402(auth).valid
              /\ Middleware(r, auth, body) )
            => MiddlewareResponse(auth, body) # MiddlewareResponse(NoAuth, body)
      ]_vars

\* C30: payment-to-access binding. A request is passed on to the route only
\* for the provider stored in the session its credential names, and the usage
\* recordUsage books for it goes to that provider's counters.
C30_ServedByPaidProvider ==
    [][ \A r \in Reqs :
            /\ (reqs[r].pc = "idle" /\ reqs'[r].pc = "admitted")
                   => reqs'[r].provider = sessions[reqs'[r].key].provider
            /\ (reqs[r].pc \in {"chat", "chatStream"} /\ revenue' # revenue)
                   => LET paidFor == sessions[reqs[r].key].provider
                      IN  revenue'.byProvider[paidFor].requests
                              = revenue.byProvider[paidFor].requests + 1
      ]_vars

\* C23 as stated: usePrepaidTokens on a prepaid session fails with 'Session
\* not paid' while paid is false, with 'Insufficient token balance' when
\* tokensUsed > tokensRemaining, both leaving tokensRemaining as it was, and
\* otherwise lowers tokensRemaining by exactly tokensUsed; tokensUsed never
\* being negative, 0 <= tokensRemaining <= tokenBudget in every session.
C23_TokensRemainingWithinBudget ==
    [][ /\ \A c \in Calls, sessionId \in SessionIds, tokensUsed \in TokensUsedInputs :
              ( /\ sessions[sessionId].exists
                /\ CallUsePrepaidTokens(c, sessionId, tokensUsed) )
              => LET session == sessions[sessionId]
                     result  == calls'[c].result
                     after   == sessions'[sessionId].tokensRemaining
                 IN  IF ~session.paid
                     THEN /\ ~result.success /\ result.error = "Session not paid"
                          /\ after = session.tokensRemaining
                     ELSE IF tokensUsed > session.tokensRemaining
                     THEN /\ ~result.success
                          /\ result.error = "Insufficient token balance"
                          /\ after = session.tokensRemaining
                     ELSE /\ result.success
                          /\ after = session.tokensRemaining - tokensUsed
        /\ \A sessionId \in SessionIds :
              sessions'[sessionId].exists
                  => /\ 0 <= sessions'[sessionId].tokensRemaining
                     /\ sessions'[sessionId].tokensRemaining
                            <= sessions'[sessionId].tokenBudget
      ]_vars

\* C23, amended: the same results and effects of usePrepaidTokens; tokensUsed
\* never being negative, 0 <= tokensRemaining <= tokenBudget in every session
\* that was created with a non-negative tokenBudget.
C23_UsePrepaidTokensBudget ==
    [][ /\ \A c \in Calls, sessionId \in SessionIds, tokensUsed \in TokensUsedInputs :
              ( /\ sessions[sessionId].exists
                /\ CallUsePrepaidTokens(c, sessionId, tokensUsed) )
              => LET session == sessions[sessionId]
                     result  == calls'[c].result
                     after   == sessions'[sessionId].tokensRemaining
                 IN  IF ~session.paid
                     THEN /\ ~result.success /\ result.error = "Session not paid"
                          /\ after = session.tokensRemaining
                     ELSE IF tokensUsed > session.tokensRemaining
                     THEN /\ ~result.success
                          /\ result.error = "Insufficient token balance"
                          /\ after = session.tokensRemaining
                     ELSE /\ result.success
                          /\ after = session.tokensRemaining - tokensUsed
        /\ \A sessionId \in SessionIds :
              (sessions'[sessionId].exists /\ sessions'[sessionId].tokenBudget >= 0)
                  => /\ 0 <= sessions'[sessionId].tokensRemaining
                     /\ sessions'[sessionId].tokensRemaining
                            <= sessions'[sessionId].tokenBudget
      ]_vars

\* C23 witness: a paid prepaid session with a budget of BudgetTokens has been
\* drawn on by a usePrepaidTokens call that succeeded.
C23_Witness ==
    \E sessionId \in SessionIds, c \in 1..Len(calls) :
        /\ sessions[sessionId].exists /\ sessions[sessionId].paid
        /\ sessions[sessionId].tokenBudget = BudgetTokens
        /\ sessions[sessionId].tokensRemaining = BudgetTokens - 1
        /\ calls[c].op = "usePrepaidTokens" /\ calls[c].arg = sessionId
        /\ calls[c].result.success

\* C24: usePrepaidTokens on a prepaid session whose expiresAt is in the past
\* fails and leaves tokensRemaining as it was.
C24_ExpiredPrepaidSessionRefused ==
    [][ \A c \in Calls, sessionId \in SessionIds, tokensUsed \in TokensUsedInputs :
            ( /\ sessions[sessionId].exists
              /\ now > sessions[sessionId].expiresAt
              /\ CallUsePrepaidTokens(c, sessionId, tokensUsed) )
            => /\ ~calls'[c].result.success
               /\ sessions'[sessionId].tokensRemaining
                      = sessions[sessionId].tokensRemaining
      ]_vars

\* C25: validating, before a prepaid session expires, a credential that names
\* the session (by its payment hash, or by its session id) and carries a
\* preimage whose SHA-256 is the session's payment hash leaves the session
\* paid.
C25_PrepaidSessionBecomesPaid ==
    [][ \A c \in Calls, authHeader \in StoreHeaders, sessionId \in SessionIds :
            ( /\ sessions[sessionId].exists
              /\ now <= sessions[sessionId].expiresAt
              /\ authHeader.macaroon.identifier.paymentHash
                     \in {sessions[sessionId].paymentHash, sessionId}
              /\ Sha256Hex(HexDecode(authHeader.preimage))
                     = sessions[sessionId].paymentHash
              /\ CallValidateL402(c, authHeader) )
            => /\ calls'[c].result.valid
               /\ sessions'[sessionId].paid
      ]_vars

\* C26: every session in the map is stored under its own payment hash, and no
\* two sessions have the same payment hash.
C26_SessionsKeyedByPaymentHash ==
    /\ \A k \in StoreKeys :
          sessions[k].exists => PaymentHashOf(sessions[k]) = k
    /\ \A k \in StoreKeys, j \in StoreKeys :
          (sessions[k].exists /\ sessions[j].exists /\ k # j)
              => PaymentHashOf(sessions[k]) # PaymentHashOf(sessions[j])

\* C27: recordUsage for a key the map holds adds 1 to that provider's
\* requests, tokensUsed to its tokens, tokensUsed x pricePerToken to its sats
\* and to the total revenue, and leaves the other providers' counters as they
\* were; for a key the map does not hold it changes neither the revenue nor
\* the sessions.
C27_RecordUsageCounters ==
    [][ \A c \in Calls, paymentHash \in StoreKeys, provider \in EnabledProviders :
            CallRecordUsage(c, paymentHash, UsageTokens, provider)
            => LET sats == UsageTokens * pricingTiers[provider].pricePerToken
                   was  == revenue.byProvider[provider]
               IN  IF sessions[paymentHash].exists
                   THEN /\ revenue'.byProvider[provider] =
                              [requests |-> was.requests + 1,
                               tokens |-> was.tokens + UsageTokens,
                               sats |-> was.sats + sats]
                        /\ revenue'.total = revenue.total + sats
                        /\ \A p \in Providers \ {provider} :
                              revenue'.byProvider[p] = revenue.byProvider[p]
                   ELSE /\ revenue' = revenue
                        /\ sessions' = sessions
      ]_vars

\* C27 witness: usage was recorded once for a stored session under grok and
\* once for a key the map does not hold, and only the first was booked.
C27_Witness ==
    \E c \in 1..Len(calls), d \in 1..Len(calls) :
        /\ calls[c].op = "recordUsage" /\ calls[d].op = "recordUsage"
        /\ sessions[calls[c].arg].exists /\ ~sessions[calls[d].arg].exists
        /\ calls[c].result.provider = "grok"
        /\ revenue.byProvider["grok"].requests = 1
        /\ revenue.total = UsageTokens * pricingTiers["grok"].pricePerToken

\* C28: every validateL402 call that presents a valid credential of an
\* unexpired session succeeds and leaves the session paid, whatever calls came
\* before it (the same credential validated already or not), and no call makes
\* a paid session unpaid.
C28_ConcurrentValidationsSucceed ==
    [][ /\ \A c \in Calls, authHeader \in StoreHeaders :
              LET key == authHeader.macaroon.identifier.paymentHash
              IN  ( /\ sessions[key].exists
                    /\ now <= sessions[key].expiresAt
                    /\ \/ authHeader.preimage = sessions[key].preimage
                       \/ Sha256Hex(HexDecode(authHeader.preimage)) = key
                    /\ CallValidateL402(c, authHeader) )
                  => /\ calls'[c].result.valid
                     /\ sessions'[key].paid
        /\ \A k \in StoreKeys :
              (sessions[k].exists /\ sessions[k].paid) => sessions'[k].paid
      ]_vars

\* C28 witness: two validateL402 calls presented the same credential, both
\* succeeded, and the session is paid.
C28_Witness ==
    /\ Len(calls) >= 2
    /\ calls[1].op = "validateL402" /\ calls[2].op = "validateL402"
    /\ calls[1].arg = calls[2].arg
    /\ calls[1].result.valid /\ calls[2].result.valid
    /\ sessions[calls[1].arg.macaroon.identifier.paymentHash].paid

\* C29: whatever a CashuService operation makes up because its call to the
\* mint failed (a non-2xx response or a network error) carries mock: true.
C29_FabricatedResultsAreFlagged ==
    ( /\ fnCall.fn \in MintQueries
      /\ fnCall.outcome \in {"notOk", "networkError"} )
    => IsFlaggedMock(fnResult)

\* C31: session flags follow PENDING -> PAID -> CONSUMED under requests through
\* the middleware and the chat route: a session appears with paid = false and
\* used = false, a used session is a paid one, and neither flag goes back from
\* true to false.
C31_SessionFlagsOnlyAdvance ==
    [][ \A k \in SessionKeys :
            /\ (~sessions[k].exists /\ sessions'[k].exists)
                   => (~sessions'[k].paid /\ ~sessions'[k].used)
            /\ sessions'[k].exists
                   => (sessions'[k].used => sessions'[k].paid)
            /\ sessions[k].exists
                   => /\ sessions'[k].exists
                      /\ sessions[k].paid => sessions'[k].paid
                      /\ sessions[k].used => sessions'[k].used
      ]_vars

\* C31 witness: one session is consumed (paid and used) while another is
\* still pending.
C31_Witness ==
    \E k \in SessionKeys, j \in SessionKeys :
        /\ sessions[k].exists /\ sessions[k].paid /\ sessions[k].used
        /\ sessions[j].exists /\ ~sessions[j].paid /\ ~sessions[j].used

\* C32: the macaroon issued by createChallenge is hash-chained: its signature
\* is HMAC(root key, identifier) extended in order by an HMAC over each of its
\* three caveats, so verifyMacaroon(issued macaroon, gateway root key, {})
\* reports valid.
C32_IssuedMacaroonVerifies ==
    \A k \in SessionKeys :
        sessions[k].exists
            => /\ Len(IssuedMacaroon(k).caveats) = 3
               /\ verifyMacaroon(MacaroonObject(IssuedMacaroon(k)),
                                 SecretKey, NoVerifiers).valid

\* the tokens counters of all providers together
TokensRecorded(rev) ==
    rev.byProvider["oobabooga"].tokens + rev.byProvider["grok"].tokens
        + rev.byProvider["chatgpt"].tokens + rev.byProvider["claude"].tokens

\* C33: recordUsage accumulates usage on the session: each call raises the
\* session's tokensUsed by what it adds to the provider's tokens counter, so
\* after any sequence of calls for one paymentHash the session's tokensUsed is
\* the sum of their tokensUsed arguments.
C33_SessionTokensAccumulate ==
    [][ \A r \in Reqs :
            ( /\ reqs[r].pc \in {"chat", "chatStream"}
              /\ reqs'[r] # reqs[r]
              /\ revenue' # revenue )
            => sessions'[reqs[r].key].tokensUsed
                   = Num(sessions[reqs[r].key].tokensUsed.val
                           + (TokensRecorded(revenue') - TokensRecorded(revenue)))
      ]_vars

\* C34: meltTokens with an amount above the total of the ledger's proofs fails
\* with insufficient balance: it does not report state PAID, submits no proofs
\* to the mint, and changes neither proofs nor balance.
C34_MeltAboveTotalFails ==
    [][ \A o \in Ops, a \in Amounts :
            (Idle /\ SumAmounts(proofs) < a /\ MeltStart(o, a))
            => /\ meltTokensCatch(balance, a).result.state # "PAID"
               /\ ops'[o].pc # "meltWait"
               /\ proofs' = proofs
               /\ balance' = balance
      ]_vars

\* C35: in every reachable ledger state no two proofs held in the ledger have
\* the same secret, after any sequence of mintTokens, swapTokens, receive, send
\* and meltTokens, for any number of signatures the mint returns.
C35_LedgerSecretsDistinct ==
    \A i \in 1..Len(proofs), j \in 1..Len(proofs) :
        i # j => proofs[i].secret # proofs[j].secret

\* C36: when the ledger's proofs total at least amount, selectProofs(amount)
\* (here as meltTokens calls it) returns the shortest prefix of the ledger's
\* proofs sorted by amount descending whose total is at least amount, returns
\* change = total selected - amount >= 0, and does not modify the ledger.
C36_SelectProofsShortestPrefix ==
    [][ \A o \in Ops, a \in Amounts :
            (Idle /\ SumAmounts(proofs) >= a /\ MeltStart(o, a))
            => LET sorted   == SortDesc(proofs)
                   result   == selectProofs(proofs, a)
                   selected == ops'[o].proofs
                   n        == Len(selected)
               IN  /\ Len(sorted) = Len(proofs)
                   /\ \A p \in {proofs[i] : i \in 1..Len(proofs)} :
                         Cardinality({i \in 1..Len(sorted) : sorted[i] = p})
                            = Cardinality({i \in 1..Len(proofs) : proofs[i] = p})
                   /\ \A i \in 1..Len(sorted), j \in 1..Len(sorted) :
                         i < j => sorted[i].amount >= sorted[j].amount
                   /\ result.ok
                   /\ selected = result.proofs
                   /\ n <= Len(sorted)
                   /\ selected = SubSeq(sorted, 1, n)
                   /\ SumAmounts(selected) >= a
                   /\ n > 0 => SumAmounts(SubSeq(sorted, 1, n - 1)) < a
                   /\ result.change = SumAmounts(selected) - a
                   /\ result.change >= 0
                   /\ proofs' = proofs
      ]_vars

\* C36 witness: the ledger holds a smaller proof before a larger one, and a
\* melt is in flight whose selection is the larger proof alone.
C36_Witness ==
    \E o \in Ops :
        /\ ops[o].pc = "meltWait"
        /\ Len(proofs) >= 2
        /\ proofs[1].amount < proofs[2].amount
        /\ ops[o].proofs = <<proofs[2]>>

RECURSIVE SumsWithAtMost(_, _, _)
\* some multiset of at most k denominations, each a power of two from 1 up to
\* d, sums to a (k coins of at most d each cannot reach more than k * d)
SumsWithAtMost(a, k, d) ==
    IF a = 0 THEN TRUE
    ELSE IF k = 0 \/ d < 1 \/ a > k * d THEN FALSE
    ELSE \E c \in 0..(IF a \div d < k THEN a \div d ELSE k) :
            SumsWithAtMost(a - c * d, k - c, d \div 2)

\* C37: splitAmount(a) is the canonical minimal decomposition: its elements
\* are in non-increasing order, every denomination below 8192 occurs at most
\* once, and no multiset of denominations from 1, 2, 4, ..., 8192 that sums to
\* a has fewer elements.
C37_SplitAmountIsMinimal ==
    fnCall.fn = "splitAmount" =>
        LET d == fnResult.denominations
        IN  /\ \A i \in 1..Len(d), j \in 1..Len(d) :
                  i < j => /\ d[i] >= d[j]
                           /\ d[i] = d[j] => d[i] = MaxDenomination
            /\ Len(d) > 0 => ~SumsWithAtMost(fnCall.amount, Len(d) - 1, MaxDenomination)

\* C37 witness: splitAmount was applied to an amount that takes the largest
\* denomination twice and smaller denominations after it.
C37_Witness ==
    /\ fnCall.fn = "splitAmount"
    /\ Len(fnResult.denominations) >= 4
    /\ fnResult.denominations[1] = MaxDenomination
    /\ fnResult.denominations[2] = MaxDenomination
    /\ fnResult.denominations[Len(fnResult.denominations)] < MaxDenomination

\* C38: whenever 0 < amount <= getBalance(), POST /api/cashu/send with that
\* amount succeeds: it passes the route's balance check, send finds proofs
\* covering the amount and a token is returned; the route never passes its own
\* balance check and then fails with insufficient balance.
C38_SendWithinBalanceSucceeds ==
    Idle => \A a \in Amounts :
                (0 < a /\ a <= balance)
                    => /\ SendRoute(a).status = 200
                       /\ SendRoute(a).error # "Insufficient balance"

\* C39: the ledger balance returned by getBalance() is never negative, after
\* any sequence of mintTokens, meltTokens, send, receive and swapTokens calls
\* with positive amounts and any mint responses.
C39_BalanceNeverNegative == balance >= 0

\* C40: in every reachable state of the gateway the total revenue equals the
\* sum of the sats counters of all providers, and each provider's sats counter
\* equals its tokens counter multiplied by that provider's pricePerToken.
C40_RevenueIsConsistent ==
    /\ revenue.total =
          revenue.byProvider["oobabooga"].sats + revenue.byProvider["grok"].sats
            + revenue.byProvider["chatgpt"].sats + revenue.byProvider["claude"].sats
    /\ \A p \in Providers :
          revenue.byProvider[p].sats
             = revenue.byProvider[p].tokens * pricingTiers[p].pricePerToken

\* C40 witness: usage has been recorded under two providers of different
\* prices.
C40_Witness ==
    /\ revenue.byProvider["oobabooga"].tokens > 0
    /\ revenue.byProvider["grok"].tokens > 0
    /\ revenue.total =
          revenue.byProvider["oobabooga"].tokens
            + pricingTiers["grok"].pricePerToken * revenue.byProvider["grok"].tokens
====
